---- MODULE Spec2Model ----
(***************************************************************************)
(* Visionboard: the client-side canvas engine (src/js/app.js) and the     *)
(* store it syncs with (src/backend/server.js).                           *)
(*                                                                         *)
(* Numbers.  The JavaScript code computes with IEEE doubles; the model     *)
(* computes with exact rationals <<n, d>> (d > 0, lowest terms), so that   *)
(* every equality it reports is an equality of the real-number values the  *)
(* code approximates.                                                      *)
(***************************************************************************)
EXTENDS Integers, Sequences, FiniteSets, TLC

(***************************************************************************)
(* Exact rational arithmetic                                               *)
(***************************************************************************)
Abs(a) ==
    IF a < 0 THEN -a ELSE a

RECURSIVE GCD(_, _)
GCD(a, b) ==
    IF b = 0 THEN a ELSE GCD(b, a % b)

\* n/d in lowest terms with a positive denominator
Rat(n, d) ==
    LET s == IF d < 0 THEN -1 ELSE 1
        g == GCD(Abs(n), Abs(d))
    IN  <<(s * n) \div g, (s * d) \div g>>

R(i) ==
    <<i, 1>>

LCM(a, b) ==
    (a \div GCD(a, b)) * b

RAdd(p, q) ==
    LET l == LCM(p[2], q[2])
    IN  Rat(p[1] * (l \div p[2]) + q[1] * (l \div q[2]), l)

RNeg(p) ==
    <<-p[1], p[2]>>

RSub(p, q) ==
    RAdd(p, RNeg(q))

RMul(p, q) ==
    LET g1 == GCD(Abs(p[1]), q[2])
        g2 == GCD(Abs(q[1]), p[2])
    IN  IF p[1] = 0 \/ q[1] = 0 THEN <<0, 1>>
        ELSE <<(p[1] \div g1) * (q[1] \div g2), (p[2] \div g2) * (q[2] \div g1)>>

\* q # 0
RDiv(p, q) ==
    RMul(p, IF q[1] < 0 THEN <<-q[2], -q[1]>> ELSE <<q[2], q[1]>>)

RLeq(p, q) ==
    LET l == LCM(p[2], q[2])
    IN  p[1] * (l \div p[2]) <= q[1] * (l \div q[2])

RLt(p, q) ==
    ~RLeq(q, p)

\* Math.max / Math.min
RMax(p, q) ==
    IF RLeq(p, q) THEN q ELSE p

RMin(p, q) ==
    IF RLeq(p, q) THEN p ELSE q

RAbs(p) ==
    <<Abs(p[1]), p[2]>>

(***************************************************************************)
(* Program constants (constructor of VisionboardApp)                       *)
(***************************************************************************)
canvasSize ==
    5000

minZoom ==
    <<1, 4>>

maxZoom ==
    <<2, 1>>

\* the height resetView subtracts from window.innerHeight: the header above
\* the viewport element
HeaderHeight ==
    50

\* the password of a login (server.js 17)
AUTH_PASSWORD ==
    "visionboard2025"

\* the lifetime of a session, 24 h, in half hours (server.js 32, 117)
sessionLifetime ==
    48

\* the period of the sweep of expired sessions, 1 h, in half hours
\* (server.js 37-42)
sweepInterval ==
    2

\* the quiet period of scheduleSyncViewport is one timer; its length is not
\* modelled, only whether the timer has fired yet

(***************************************************************************)
(* Bounds of the model                                                     *)
(***************************************************************************)
\* events handled in one explored run of the whole system
MaxSteps ==
    2

\* events handled in one explored run of the viewport controller
MaxViewSteps ==
    3

\* events handled in one explored run of the gesture router
MaxRouterSteps ==
    3

\* events handled in one explored run of the navigation loops
MaxNavSteps ==
    4

\* events handled in one explored run of the item lifecycle
MaxItemSteps ==
    3

\* events handled in one explored run of the images
MaxImageSteps ==
    4

\* events handled in one explored run of the writes, the store and the load
MaxSyncSteps ==
    5

\* requests served in one explored run of the store
MaxStoreSteps ==
    3

\* requests served and periods passed in one explored run of the sessions
MaxSessionSteps ==
    3

\* events handled in one explored run of the page whose session ends
MaxAuthSteps ==
    4

\* events handled in one explored run of the selection
MaxSelectSteps ==
    4

\* events handled in one explored run of the request order
MaxOrderSteps ==
    5

\* window sizes (innerWidth, innerHeight) the page is opened with
WindowSizes ==
    {<<800, 650>>, <<1400, 1350>>}

\* pointer positions relative to the viewport element's top-left corner
Points ==
    {<<0, 0>>, <<400, 300>>}

\* pointer positions relative to the minimap's top-left corner
MinimapPoints ==
    {<<0, 0>>, <<100, 100>>, <<200, 200>>}

\* finger positions of the touch events (their pairwise distances are integers)
TouchPoints ==
    {<<0, 0>>, <<60, 80>>, <<300, 400>>}

\* texts typed into the text editor and the todo editor
Texts ==
    {<<" ">>, <<" ", "a", "\n">>, <<"b">>}

\* sizes (width, height) of the images added, in pixels
ImageSizes ==
    {<<200, 100>>, <<400, 400>>, <<800, 400>>, <<300, 1200>>}

\* fingers on the screen at once
MaxFingers ==
    2

\* null, where the code holds an item reference, an item id or a timer id
NoItem ==
    0

\* no token: authToken null, the X-Auth-Token header or the token query
\* parameter absent
NoToken ==
    0

(***************************************************************************)
(* State                                                                   *)
(***************************************************************************)
VARIABLES
    \* the browser window and the page
    innerWidth, innerHeight,    \* window.innerWidth / window.innerHeight
    page,                       \* "open": a VisionboardApp is running; "closed": unloaded
    \* VisionboardApp fields (constructor, app.js 77-142)
    items, todos,
    viewport_x, viewport_y, zoom,
    isPanning, isSpacePressed, panStart,
    selectedItem, draggedItem, dragOffset, resizingItem, resizeStart,
    keysPressed, isNavigating, isShiftPressed,
    joystickState, joystickNavigating,
    pinchStart, pinchZoomStart,
    editingItemId, pendingTextPosition, pendingImagePosition, contextMenuPosition,
    textEditorState,
    syncTimeout,
    syncStatus,
    \* the browser's event loop
    timers,                     \* ids of the setTimeout timers still pending
    nextTimer,                  \* the id the next setTimeout returns
    navFrames,                  \* pending requestAnimationFrame callbacks of navigationLoop
    joyFrames,                  \* pending requestAnimationFrame callbacks of joystickNavigationLoop
    fingers,                    \* the touches on the screen: <<target, x, y>>
    orphans,                    \* item objects removed from this.items but still referenced
    nextId,                     \* generateId: the next fresh id
    \* localStorage['visionboard_data']: <<>> or <<the saved data>>
    localStorage,
    \* requests in flight, and the store (server.js)
    net, nextMsg,
    boards, srvItems, srvTodos,
    authToken, sessions,        \* the client's cached token; the server's session map
    clock,                      \* the server's Date.now(), in half hours
    nextToken,                  \* generateToken: the next fresh token
    held,                       \* the keys physically held down
    \* bookkeeping of the exploration
    steps,                      \* events handled so far
    budget,                     \* events handled at most in one explored run
    last                        \* the event handled last, with the state it started in

envVars == <<innerWidth, innerHeight, page>>
viewVars == <<viewport_x, viewport_y, zoom>>
panVars == <<isPanning, panStart>>
itemVars == <<items, todos, orphans, nextId>>
dragVars == <<selectedItem, draggedItem, dragOffset, resizingItem, resizeStart>>
keyVars == <<isSpacePressed, keysPressed, isNavigating, isShiftPressed, navFrames>>
joyVars == <<joystickState, joystickNavigating, joyFrames>>
pinchVars == <<pinchStart, pinchZoomStart>>
timerVars == <<syncTimeout, timers, nextTimer>>
netVars == <<net, nextMsg>>
srvVars == <<boards, srvItems, srvTodos>>
editVars == <<editingItemId, pendingTextPosition, pendingImagePosition, contextMenuPosition,
              textEditorState>>
authVars == <<authToken, sessions, clock, nextToken>>

vars == <<envVars, viewVars, panVars, itemVars, dragVars, keyVars, joyVars, pinchVars,
          editVars, authVars, held,
          timerVars, syncStatus, fingers, localStorage, netVars, srvVars, steps, budget,
          last>>

(***************************************************************************)
(* The viewport element                                                    *)
(***************************************************************************)
\* this.viewport.getBoundingClientRect(): the viewport element fills the window
\* below the header (the layout resetView assumes)
rectWidth ==
    innerWidth

rectHeight ==
    innerHeight - HeaderHeight

\* e.clientX - rect.left of a minimap click ranges over 0..minimap width; the
\* minimap element is MinimapSize pixels wide and high
MinimapSize ==
    200

(***************************************************************************)
(* Viewport controller: pure parts                                         *)
(***************************************************************************)
\* clampViewport, one axis: Math.max(0, Math.min(max, origin)),
\* max = canvasSize - rect extent / zoom
clampAxisNegated(o, extent, z) ==
    RMax(R(0), RMin(RSub(R(canvasSize), RDiv(R(extent), z)), RNeg(o)))

clampAxis(o, extent, z) ==
    RMax(R(0), RMin(RSub(R(canvasSize), RDiv(R(extent), z)), o))

clampX(x, z) ==
    clampAxis(x, rectWidth, z)

clampY(y, z) ==
    clampAxis(y, rectHeight, z)

\* the canvas point under screen coordinate sc (one axis): origin + sc / zoom
toCanvas(o, sc, z) ==
    RAdd(o, RDiv(sc, z))

\* Math.max(minZoom, Math.min(maxZoom, z))
clampZoomUnbounded(z) ==
    z

clampZoom(z) ==
    RMax(minZoom, RMin(maxZoom, z))

\* the origin (one axis) that keeps the canvas point under screen coordinate
\* sc fixed when the zoom goes from z to nz: canvas - sc / nz
zoomOriginDrift(o, sc, z, nz) ==
    RSub(toCanvas(o, sc, z), RDiv(sc, z))

zoomOrigin(o, sc, z, nz) ==
    RSub(toCanvas(o, sc, z), RDiv(sc, nz))

\* the wheel factor: e.deltaY > 0 ? 0.9 : 1.1
wheelDelta(deltaY) ==
    IF deltaY > 0 THEN <<9, 10>> ELSE <<11, 10>>

\* the zoom button factor 1.2
zoomStep ==
    <<6, 5>>

\* Math.sqrt of a perfect square
Sqrt(n) ==
    CHOOSE r \in 0..1000 : r * r = n

\* getPinchDistance(e): the distance between e.touches[0] and e.touches[1]
getPinchDistance(fs) ==
    LET dx == fs[1].x - fs[2].x
        dy == fs[1].y - fs[2].y
    IN  Sqrt(dx * dx + dy * dy)

(***************************************************************************)
(* Bookkeeping: the event being handled and the state it starts in         *)
(***************************************************************************)
\* Date.now(): events are handled at distinct times
Now ==
    steps + 1

\* an event that carries no argument
NoArg ==
    "none"

Ev(op, ax, ay) ==
    [op |-> op, ax |-> ax, ay |-> ay, arg |-> NoArg,
     x |-> viewport_x, y |-> viewport_y, z |-> zoom,
     pending |-> timers, issued |-> nextTimer, sent |-> nextMsg,
     pan |-> isPanning, drag |-> draggedItem, resize |-> resizingItem,
     navFrames |-> navFrames, joyFrames |-> joyFrames,
     nav |-> isNavigating, joy |-> joystickNavigating,
     keys |-> keysPressed, held |-> held, shift |-> isShiftPressed,
     fingers |-> fingers, pinchStart |-> pinchStart, pinchZoomStart |-> pinchZoomStart,
     menu |-> contextMenuPosition,
     pendingText |-> pendingTextPosition, pendingImage |-> pendingImagePosition,
     sel |-> selectedItem, editing |-> editingItemId, items |-> items, todos |-> todos,
     cache |-> localStorage, status |-> syncStatus, fresh |-> nextId,
     rows |-> srvItems, todoRows |-> srvTodos, boards |-> boards,
     sessions |-> sessions, clock |-> clock, token |-> authToken,
     code |-> 0, reply |-> NoArg,
     prevOp |-> NoArg, prevItems |-> <<>>, prevFresh |-> 0]

\* one more step of the run, by the page or by the network and the server
Step(op, ax, ay) ==
    /\ steps < budget
    /\ steps' = steps + 1
    /\ budget' = budget
    /\ last' = Ev(op, ax, ay)

\* the open page handles an event
Handled(op, ax, ay) ==
    /\ page = "open"
    /\ Step(op, ax, ay)

\* one more step, of an event whose argument (a key, an id, a text, a
\* message) is arg
StepArg(op, arg) ==
    /\ steps < budget
    /\ steps' = steps + 1
    /\ budget' = budget
    /\ last' = [Ev(op, R(0), R(0)) EXCEPT !.arg = arg]

\* one more step: the server answers request m with the status code and the
\* body reply
Served(op, m, code, reply) ==
    /\ steps < budget
    /\ steps' = steps + 1
    /\ budget' = budget
    /\ last' = [Ev(op, R(0), R(0)) EXCEPT !.arg = m, !.code = code, !.reply = reply]

HandledArg(op, arg) ==
    /\ page = "open"
    /\ StepArg(op, arg)

\* the open page handles a deletion of item id; the event before it, and the
\* items and the next fresh id that event started with, are kept with it
HandledDelete(op, id) ==
    /\ page = "open"
    /\ steps < budget
    /\ steps' = steps + 1
    /\ budget' = budget
    /\ last' = [Ev(op, R(0), R(0)) EXCEPT !.arg = id, !.prevOp = last.op,
                                          !.prevItems = last.items,
                                          !.prevFresh = last.fresh]

(***************************************************************************)
(* Persistence: local cache, debounce timer, requests                      *)
(***************************************************************************)
\* saveToLocalStorage (app.js 1521-1530) of the state (is, ts, x, y, z): the
\* localStorage entry it writes (<<>> while the key is absent)
cacheOf(is, ts, x, y, z) ==
    <<[items |-> is, todos |-> ts, viewport_x |-> x, viewport_y |-> y, zoom |-> z]>>

\* scheduleSyncViewport without the clearTimeout
scheduleSyncViewportNoClear ==
    /\ timers' = timers \cup {nextTimer}
    /\ syncTimeout' = nextTimer
    /\ nextTimer' = nextTimer + 1

\* scheduleSyncViewport (app.js 1608-1611): clearTimeout(this.syncTimeout);
\* this.syncTimeout = setTimeout(..., 1000)
scheduleSyncViewport ==
    /\ timers' = (timers \ {syncTimeout}) \cup {nextTimer}
    /\ syncTimeout' = nextTimer
    /\ nextTimer' = nextTimer + 1

\* this.boardId (app.js 86)
boardId ==
    "default"

\* the requests bs (a sequence of [kind, id, body]) leave the client, in order,
\* each for the board boardId (in the path, or as board_id in the body) and
\* with the X-Auth-Token header of getAuthHeaders (app.js 9-11)
Send(bs) ==
    /\ net' = net \cup {[seq |-> nextMsg + i - 1, kind |-> bs[i].kind,
                         id |-> bs[i].id, body |-> bs[i].body,
                         board |-> boardId,
                         token |-> authToken, query |-> NoToken] : i \in DOMAIN bs}
    /\ nextMsg' = nextMsg + Len(bs)

\* the body of PUT /board/:id/viewport (app.js 1619)
viewportBody(x, y, z) ==
    [x |-> x, y |-> y, zoom |-> z]

(***************************************************************************)
(* Viewport controller: pan                                                *)
(***************************************************************************)
\* startPan (app.js 575-579)
startPan(x, y) ==
    /\ isPanning' = TRUE
    /\ panStart' = <<x, y>>

\* doPan (app.js 581-590)
doPan(x, y) ==
    LET dx == x - panStart[1]
        dy == y - panStart[2]
    IN  /\ viewport_x' = clampX(RSub(viewport_x, RDiv(R(dx), zoom)), zoom)
        /\ viewport_y' = clampY(RSub(viewport_y, RDiv(R(dy), zoom)), zoom)
        /\ panStart' = <<x, y>>
        /\ UNCHANGED <<zoom, isPanning>>

\* endPan (app.js 592-596)
endPan ==
    /\ isPanning' = FALSE
    /\ scheduleSyncViewport

(***************************************************************************)
(* Viewport controller: zoom, reset, minimap                               *)
(***************************************************************************)
\* onWheel (app.js 598-625); (mx, my) = mouse position in the viewport element
onWheel(mx, my, deltaY) ==
    LET newZoom == clampZoom(RMul(zoom, wheelDelta(deltaY)))
    IN  /\ Handled("wheel", R(mx), R(my))
        /\ IF newZoom # zoom
           THEN /\ zoom' = newZoom
                /\ viewport_x' = clampX(zoomOrigin(viewport_x, R(mx), zoom, newZoom), newZoom)
                /\ viewport_y' = clampY(zoomOrigin(viewport_y, R(my), zoom, newZoom), newZoom)
                /\ scheduleSyncViewport
           ELSE UNCHANGED <<viewVars, timerVars>>
        /\ UNCHANGED <<envVars, panVars, itemVars, dragVars, keyVars, joyVars, pinchVars,
                       editVars, authVars, held,
                       syncStatus, fingers, localStorage, netVars, srvVars>>

\* the common body of zoomIn and zoomOut: zoom to nz about the viewport centre
zoomAboutCentre(nz) ==
    /\ zoom' = nz
    /\ viewport_x' = clampX(zoomOrigin(viewport_x, Rat(rectWidth, 2), zoom, nz), nz)
    /\ viewport_y' = clampY(zoomOrigin(viewport_y, Rat(rectHeight, 2), zoom, nz), nz)
    /\ scheduleSyncViewport
    /\ UNCHANGED <<envVars, panVars, itemVars, dragVars, keyVars, joyVars, pinchVars,
                   editVars, authVars, held,
                   syncStatus, fingers, localStorage, netVars, srvVars>>

\* zoomIn (app.js 627-645)
zoomIn ==
    /\ Handled("zoomIn", Rat(rectWidth, 2), Rat(rectHeight, 2))
    /\ zoomAboutCentre(RMin(maxZoom, RMul(zoom, zoomStep)))

\* zoomOut (app.js 647-665)
zoomOut ==
    /\ Handled("zoomOut", Rat(rectWidth, 2), Rat(rectHeight, 2))
    /\ zoomAboutCentre(RMax(minZoom, RDiv(zoom, zoomStep)))

\* the origin resetView sets (app.js 668-669)
resetOriginX ==
    RSub(Rat(canvasSize, 2), Rat(innerWidth, 2))

resetOriginY ==
    RSub(Rat(canvasSize, 2), Rat(innerHeight - HeaderHeight, 2))

\* resetView that recentres but keeps the zoom
resetViewKeepZoom ==
    /\ viewport_x' = resetOriginX
    /\ viewport_y' = resetOriginY
    /\ zoom' = zoom
    /\ scheduleSyncViewport

\* resetView (app.js 667-675)
resetView ==
    /\ viewport_x' = resetOriginX
    /\ viewport_y' = resetOriginY
    /\ zoom' = R(1)
    /\ scheduleSyncViewport

\* click on the reset button or the mobile centre button (app.js 174, 517-521)
onResetClick ==
    /\ Handled("resetView", R(0), R(0))
    /\ resetView
    /\ UNCHANGED <<envVars, panVars, itemVars, dragVars, keyVars, joyVars, pinchVars,
                   editVars, authVars, held,
                   syncStatus, fingers, localStorage, netVars, srvVars>>

\* onMinimapClick (app.js 712-731); (x, y) = click position in the minimap
onMinimapClick(x, y) ==
    LET scaleX == Rat(canvasSize, MinimapSize)
        scaleY == Rat(canvasSize, MinimapSize)
        vpHalfWidth == RDiv(RDiv(R(rectWidth), zoom), R(2))
        vpHalfHeight == RDiv(RDiv(R(rectHeight), zoom), R(2))
    IN  /\ Handled("minimap", R(x), R(y))
        /\ viewport_x' = clampX(RSub(RMul(R(x), scaleX), vpHalfWidth), zoom)
        /\ viewport_y' = clampY(RSub(RMul(R(y), scaleY), vpHalfHeight), zoom)
        /\ zoom' = zoom
        /\ scheduleSyncViewport
        /\ UNCHANGED <<envVars, panVars, itemVars, dragVars, keyVars, joyVars, pinchVars,
                       editVars, authVars, held,
                       syncStatus, fingers, localStorage, netVars, srvVars>>

(***************************************************************************)
(* Items: the objects of this.items and references to them                 *)
(***************************************************************************)
\* an absent numeric field (undefined)
Undef ==
    <<0, 0>>

\* an absent position (null): pendingTextPosition?.x is undefined
NoPos ==
    <<Undef, Undef>>

\* a JavaScript number is truthy unless it is 0 (or absent)
Truthy(r) ==
    r # Undef /\ r[1] # 0

\* a || b on numbers
OrElse(a, b) ==
    IF Truthy(a) THEN a ELSE b

Has(seq, id) ==
    \E i \in DOMAIN seq : seq[i].id = id

IndexOf(seq, id) ==
    CHOOSE i \in DOMAIN seq : seq[i].id = id

\* a splice that takes the first element, whatever the index
RemoveHead(seq, i) ==
    Tail(seq)

\* seq.splice(i, 1)
RemoveAt(seq, i) ==
    SubSeq(seq, 1, i - 1) \o SubSeq(seq, i + 1, Len(seq))

\* the item object with this id: an element of this.items, or an object that
\* was spliced out of it while draggedItem / resizingItem still referred to it
Obj(id) ==
    IF Has(items, id) THEN items[IndexOf(items, id)] ELSE orphans[IndexOf(orphans, id)]

\* the lists after assigning fields to the object with this id
ItemsWith(id, o) ==
    IF Has(items, id) THEN [items EXCEPT ![IndexOf(items, id)] = o] ELSE items

OrphansWith(id, o) ==
    IF Has(items, id) THEN orphans ELSE [orphans EXCEPT ![IndexOf(orphans, id)] = o]

\* the request of updateItemAPI(item) (app.js 1545-1556)
updateItemRequest(o) ==
    [kind |-> "PUT /items", id |-> o.id, body |-> o]

\* the request of deleteItemAPI(id) (app.js 1558-1568)
deleteItemRequest(id) ==
    [kind |-> "DELETE /items", id |-> id, body |-> [none |-> TRUE]]

(***************************************************************************)
(* Joystick state                                                          *)
(***************************************************************************)
\* the centre of the joystick stick (startX, startY), in client coordinates
StickCentre ==
    <<60, 80>>

\* updateJoystickPosition (app.js 406-426): the normalised direction for a
\* pointer at (cx, cy); maxDistance = 35
joystickDirection(cx, cy) ==
    LET maxDist == 35
        dx == cx - StickCentre[1]
        dy == cy - StickCentre[2]
        distance == Sqrt(dx * dx + dy * dy)
        cdx == IF distance > maxDist THEN RMul(Rat(dx, distance), R(maxDist)) ELSE R(dx)
        cdy == IF distance > maxDist THEN RMul(Rat(dy, distance), R(maxDist)) ELSE R(dy)
    IN  <<RDiv(cdx, R(maxDist)), RDiv(cdy, R(maxDist))>>

\* resetJoystick (app.js 428-439), the fields of joystickState
joystickReleased(js) ==
    [js EXCEPT !.active = FALSE, !.currentX = R(0), !.currentY = R(0)]

\* one frame of joystickNavigationLoop (app.js 455-466): the new origin
joystickStep(x, y, js, z) ==
    LET speed == 12
        moving == RLt(<<1, 10>>, RAbs(js.currentX)) \/ RLt(<<1, 10>>, RAbs(js.currentY))
    IN  IF moving
        THEN <<clampX(RAdd(x, RMul(js.currentX, R(speed))), z),
               clampY(RAdd(y, RMul(js.currentY, R(speed))), z)>>
        ELSE <<x, y>>

(***************************************************************************)
(* Keyboard navigation: pure parts                                         *)
(***************************************************************************)
NavKeys ==
    {"w", "a", "s", "d", "ArrowUp", "ArrowDown", "ArrowLeft", "ArrowRight"}

\* normalizeNavKey (app.js 869-877)
normalizeNavKey(key) ==
    CASE key \in {"w", "ArrowUp"} -> "up"
      [] key \in {"s", "ArrowDown"} -> "down"
      [] key \in {"a", "ArrowLeft"} -> "left"
      [] key \in {"d", "ArrowRight"} -> "right"
      [] OTHER -> key

navigationSpeed ==
    8

navigationSpeedFast ==
    25

\* one frame of navigationLoop (app.js 897-915): the new origin
navigationStep(x, y, keys, shift, z) ==
    LET speed == R(IF shift THEN navigationSpeedFast ELSE navigationSpeed)
        y1 == IF "up" \in keys THEN RMax(R(0), RSub(y, speed)) ELSE y
        y2 == IF "down" \in keys
              THEN RMin(RSub(R(canvasSize), RDiv(R(innerHeight), z)), RAdd(y1, speed))
              ELSE y1
        x1 == IF "left" \in keys THEN RMax(R(0), RSub(x, speed)) ELSE x
        x2 == IF "right" \in keys
              THEN RMin(RSub(R(canvasSize), RDiv(R(innerWidth), z)), RAdd(x1, speed))
              ELSE x1
    IN  <<x2, y2>>

(***************************************************************************)
(* Gesture router: mouse                                                   *)
(***************************************************************************)
\* mousedown on the canvas background: onViewportMouseDown (app.js 543-551);
\* button 1 is the middle button
onViewportMouseDown(button, x, y) ==
    /\ Handled("mousedown", R(x), R(y))
    /\ IF button = 1 \/ isSpacePressed
       THEN startPan(x, y)
       ELSE UNCHANGED panVars
    /\ UNCHANGED <<envVars, viewVars, itemVars, dragVars, keyVars, joyVars, pinchVars,
                   editVars, authVars, held, timerVars,
                   syncStatus, fingers, localStorage, netVars, srvVars>>

\* startDragItem (app.js 1214-1227)
startDragItem(id, x, y) ==
    /\ draggedItem' = id
    /\ selectedItem' = id
    /\ dragOffset' = <<RSub(toCanvas(viewport_x, R(x), zoom), Obj(id).x),
                       RSub(toCanvas(viewport_y, R(y), zoom), Obj(id).y)>>
    /\ UNCHANGED <<resizingItem, resizeStart>>

\* startResize (app.js 1249-1258)
startResize(id, x, y) ==
    /\ resizingItem' = id
    /\ resizeStart' = [x |-> x, y |-> y, width |-> Obj(id).width, height |-> Obj(id).height]
    /\ UNCHANGED <<draggedItem, selectedItem, dragOffset>>

\* mousedown on a rendered item (createItemElement, app.js 1341, 1356-1359):
\* on its resize handle (image items) or on its body; both stop propagation,
\* so onViewportMouseDown does not run
onItemMouseDown(id, part, x, y) ==
    /\ Has(items, id)
    /\ part = "resize" => Obj(id).type = "image"
    /\ Handled("itemdown", R(x), R(y))
    /\ IF part = "resize" THEN startResize(id, x, y) ELSE startDragItem(id, x, y)
    /\ UNCHANGED <<envVars, viewVars, panVars, itemVars, keyVars, joyVars, pinchVars,
                   editVars, authVars, held, timerVars,
                   syncStatus, fingers, localStorage, netVars, srvVars>>

\* doDragItem (app.js 1229-1240): the dragged object at its new position
draggedTo(x, y) ==
    [Obj(draggedItem) EXCEPT !.x = RSub(toCanvas(viewport_x, R(x), zoom), dragOffset[1]),
                             !.y = RSub(toCanvas(viewport_y, R(y), zoom), dragOffset[2])]

\* doResize (app.js 1260-1270): the resized object
resizedTo(x, y) ==
    LET dx == RDiv(R(x - resizeStart.x), zoom)
        dy == RDiv(R(y - resizeStart.y), zoom)
    IN  [Obj(resizingItem) EXCEPT !.width = RMax(R(50), RAdd(resizeStart.width, dx)),
                                  !.height = RMax(R(50), RAdd(resizeStart.height, dy))]

\* mousemove over the viewport: onViewportMouseMove (app.js 553-561)
onViewportMouseMove(x, y) ==
    /\ Handled("mousemove", R(x), R(y))
    /\ IF isPanning
       THEN /\ doPan(x, y)
            /\ UNCHANGED <<items, orphans>>
       ELSE /\ UNCHANGED <<viewVars, panVars>>
            /\ IF draggedItem # NoItem
               THEN /\ items' = ItemsWith(draggedItem, draggedTo(x, y))
                    /\ orphans' = OrphansWith(draggedItem, draggedTo(x, y))
               ELSE IF resizingItem # NoItem
               THEN /\ items' = ItemsWith(resizingItem, resizedTo(x, y))
                    /\ orphans' = OrphansWith(resizingItem, resizedTo(x, y))
               ELSE UNCHANGED <<items, orphans>>
    /\ UNCHANGED <<envVars, todos, nextId, dragVars, keyVars, joyVars, pinchVars,
                   editVars, authVars, held, timerVars,
                   syncStatus, fingers, localStorage, netVars, srvVars>>

\* the requests endDragItem and endResize issue (app.js 1242-1247, 1272-1277)
releaseRequests ==
    (IF draggedItem # NoItem THEN <<updateItemRequest(Obj(draggedItem))>> ELSE <<>>)
    \o (IF resizingItem # NoItem THEN <<updateItemRequest(Obj(resizingItem))>> ELSE <<>>)

\* onViewportMouseUp that ends no pan
onViewportMouseUpKeepPan ==
    /\ UNCHANGED <<isPanning, timerVars>>
    /\ draggedItem' = NoItem
    /\ resizingItem' = NoItem
    /\ Send(releaseRequests)
    /\ localStorage' = IF releaseRequests # <<>>
                       THEN cacheOf(items, todos, viewport_x, viewport_y, zoom)
                       ELSE localStorage
    /\ UNCHANGED <<panStart, selectedItem, dragOffset, resizeStart>>

\* onViewportMouseUp (app.js 563-573): endPan, endDragItem, endResize
onViewportMouseUp ==
    /\ IF isPanning THEN endPan ELSE UNCHANGED <<isPanning, timerVars>>
    /\ draggedItem' = NoItem
    /\ resizingItem' = NoItem
    /\ Send(releaseRequests)
    /\ localStorage' = IF releaseRequests # <<>>
                       THEN cacheOf(items, todos, viewport_x, viewport_y, zoom)
                       ELSE localStorage
    /\ UNCHANGED <<panStart, selectedItem, dragOffset, resizeStart>>

\* onJoystickMouseEnd (app.js 399-404) with resetJoystick and
\* stopJoystickNavigation (447-450), whose call of the undefined method
\* saveViewportPosition throws after joystickNavigating is cleared
onJoystickMouseEnd ==
    IF joystickState.mouseDown
    THEN /\ joystickState' = [joystickReleased(joystickState) EXCEPT !.mouseDown = FALSE]
         /\ joystickNavigating' = FALSE
         /\ UNCHANGED joyFrames
    ELSE UNCHANGED joyVars

\* mouseup or mouseleave on the viewport (app.js 184-185); a mouseup also
\* reaches the document listener onJoystickMouseEnd (app.js 323)
MouseUp(kind) ==
    /\ Handled(kind, R(0), R(0))
    /\ onViewportMouseUp
    /\ IF kind = "mouseup" THEN onJoystickMouseEnd ELSE UNCHANGED joyVars
    /\ UNCHANGED <<envVars, viewVars, itemVars, keyVars, pinchVars,
                   editVars, authVars, held,
                   syncStatus, fingers, srvVars>>

\* click on a rendered item: selectItem (app.js 1362-1366, 1204-1207)
onItemClick(id) ==
    /\ Has(items, id)
    /\ Handled("itemclick", R(0), R(0))
    /\ selectedItem' = id
    /\ UNCHANGED <<envVars, viewVars, panVars, itemVars, keyVars, joyVars, pinchVars,
                   draggedItem, dragOffset, resizingItem, resizeStart,
                   editVars, authVars, held, timerVars,
                   syncStatus, fingers, localStorage, netVars, srvVars>>

\* a deleteItem that leaves the selection as it is
deleteItemKeepSelection(id) ==
    IF Has(items, id)
    THEN /\ items' = RemoveAt(items, IndexOf(items, id))
         /\ orphans' = IF id \in {draggedItem, resizingItem}
                       THEN Append(orphans, Obj(id)) ELSE orphans
         /\ Send(<<deleteItemRequest(id)>>)
         /\ localStorage' = cacheOf(RemoveAt(items, IndexOf(items, id)), todos,
                                    viewport_x, viewport_y, zoom)
         /\ UNCHANGED selectedItem
    ELSE UNCHANGED <<items, orphans, netVars, localStorage, selectedItem>>

\* deleteItem (app.js 1279-1287): the state parts it writes
deleteItem(id) ==
    IF Has(items, id)
    THEN /\ items' = RemoveAt(items, IndexOf(items, id))
         /\ orphans' = IF id \in {draggedItem, resizingItem}
                       THEN Append(orphans, Obj(id)) ELSE orphans
         /\ Send(<<deleteItemRequest(id)>>)
         /\ localStorage' = cacheOf(RemoveAt(items, IndexOf(items, id)), todos,
                                    viewport_x, viewport_y, zoom)
         /\ selectedItem' = NoItem
    ELSE UNCHANGED <<items, orphans, netVars, localStorage, selectedItem>>

\* click on the delete button of a rendered item (app.js 1349-1352)
onDeleteClick(id) ==
    /\ Has(items, id)
    /\ HandledDelete("deleteclick", id)
    /\ deleteItem(id)
    /\ UNCHANGED <<envVars, viewVars, panVars, todos, nextId, keyVars, joyVars, pinchVars,
                   draggedItem, dragOffset, resizingItem, resizeStart,
                   editVars, authVars, held, timerVars,
                   syncStatus, fingers, srvVars>>

(***************************************************************************)
(* Item lifecycle: canvas click, text editor, images                       *)
(***************************************************************************)
\* maxSize of addImageItem
maxSize ==
    400

\* the characters String.prototype.trim removes, as far as the texts typed
\* here hold any
Whitespace ==
    {" ", "\n"}

\* a text keeps every character: what trim would be if it removed nothing
trimNothing(s) ==
    s

RECURSIVE trimStart(_)
\* the text without its leading whitespace
trimStart(s) ==
    IF s # <<>> /\ Head(s) \in Whitespace THEN trimStart(Tail(s)) ELSE s

RECURSIVE trimEnd(_)
\* the text without its trailing whitespace
trimEnd(s) ==
    IF s # <<>> /\ s[Len(s)] \in Whitespace THEN trimEnd(SubSeq(s, 1, Len(s) - 1)) ELSE s

\* value.trim() (app.js 1040, 1390)
trim(s) ==
    trimEnd(trimStart(s))

\* contextmenu event (a press of the right button) on the canvas background or
\* on a rendered item, a child of the canvas (app.js 1301) that has no listener
\* of its own for it: onCanvasRightClick (app.js 942-951) runs for both
onCanvasRightClick(target, x, y) ==
    /\ target = "item" => items # <<>>
    /\ page = "open"
    /\ steps < budget
    /\ steps' = steps + 1
    /\ budget' = budget
    /\ last' = [Ev("rightclick", R(x), R(y)) EXCEPT !.arg = target]
    /\ contextMenuPosition' = <<toCanvas(viewport_x, R(x), zoom),
                                toCanvas(viewport_y, R(y), zoom)>>
    /\ UNCHANGED <<envVars, viewVars, panVars, itemVars, dragVars, keyVars,
                   joyVars, pinchVars, editingItemId, pendingTextPosition,
                   pendingImagePosition, textEditorState, authVars, held, timerVars,
                   syncStatus, fingers, localStorage, netVars, srvVars>>

\* click on the canvas background: onCanvasClick (app.js 929-940) and the
\* document listener that hides the context menu (203-207)
onCanvasClick(x, y) ==
    /\ Handled("canvasclick", R(x), R(y))
    /\ contextMenuPosition' = <<toCanvas(viewport_x, R(x), zoom),
                                toCanvas(viewport_y, R(y), zoom)>>
    /\ UNCHANGED <<envVars, viewVars, panVars, itemVars, dragVars, keyVars,
                   joyVars, pinchVars, editingItemId, pendingTextPosition,
                   pendingImagePosition, textEditorState, authVars, held, timerVars,
                   syncStatus, fingers, localStorage, netVars, srvVars>>

\* the text editor modal is shown: openTextEditor sets pendingTextPosition,
\* editTextItem sets editingItemId, closeTextEditor clears both
TextEditorShown ==
    pendingTextPosition # NoPos \/ editingItemId # NoItem

\* openTextEditor(x, y) (app.js 991-1008): the state parts it writes
openTextEditor(x, y) ==
    /\ pendingTextPosition' = <<x, y>>
    /\ editingItemId' = NoItem
    /\ textEditorState' = "default"

\* the context menu's buttons: onContextMenuAction (app.js 963-978)
onContextMenuAction(action) ==
    /\ HandledArg("contextmenu", action)
    /\ CASE action = "text" ->
              /\ openTextEditor(contextMenuPosition[1], contextMenuPosition[2])
              /\ UNCHANGED pendingImagePosition
         [] action = "image" ->
              /\ pendingImagePosition' = contextMenuPosition
              /\ UNCHANGED <<pendingTextPosition, editingItemId, textEditorState>>
    /\ UNCHANGED <<envVars, viewVars, panVars, itemVars, dragVars, keyVars,
                   joyVars, pinchVars, contextMenuPosition, authVars, held, timerVars,
                   syncStatus, fingers, localStorage, netVars, srvVars>>

\* openTextEditorAtCenter (app.js 984-989)
openTextEditorAtCenter ==
    /\ Handled("opentext", R(0), R(0))
    /\ openTextEditor(RAdd(viewport_x, RDiv(Rat(rectWidth, 2), zoom)),
                      RAdd(viewport_y, RDiv(Rat(rectHeight, 2), zoom)))
    /\ UNCHANGED <<envVars, viewVars, panVars, itemVars, dragVars, keyVars,
                   joyVars, pinchVars, contextMenuPosition, pendingImagePosition,
                   authVars, held, timerVars,
                   syncStatus, fingers, localStorage, netVars, srvVars>>

\* double click on a rendered text item: editTextItem (app.js 1325-1328,
\* 1010-1031)
editTextItem(id) ==
    /\ Has(items, id)
    /\ Obj(id).type = "text"
    /\ HandledArg("edittext", id)
    /\ editingItemId' = id
    /\ textEditorState' = Obj(id).style
    /\ UNCHANGED <<envVars, viewVars, panVars, itemVars, dragVars, keyVars,
                   joyVars, pinchVars, contextMenuPosition, pendingTextPosition,
                   pendingImagePosition, authVars, held, timerVars,
                   syncStatus, fingers, localStorage, netVars, srvVars>>

\* a style button of the text editor (app.js 248-255): bold is toggled
onStyleClick ==
    /\ TextEditorShown
    /\ textEditorState \in {"default", "bold"}
    /\ Handled("styleclick", R(0), R(0))
    /\ textEditorState' = IF textEditorState = "bold" THEN "default" ELSE "bold"
    /\ UNCHANGED <<envVars, viewVars, panVars, itemVars, dragVars, keyVars,
                   joyVars, pinchVars, contextMenuPosition, pendingTextPosition,
                   pendingImagePosition, editingItemId, authVars, held, timerVars,
                   syncStatus, fingers, localStorage, netVars, srvVars>>

\* closeTextEditor (app.js 1033-1037): the state parts it writes
closeTextEditor ==
    /\ editingItemId' = NoItem
    /\ pendingTextPosition' = NoPos

\* the cancel and close buttons of the text editor (app.js 226-227)
onCancelText ==
    /\ TextEditorShown
    /\ Handled("canceltext", R(0), R(0))
    /\ closeTextEditor
    /\ UNCHANGED <<envVars, viewVars, panVars, itemVars, dragVars, keyVars,
                   joyVars, pinchVars, contextMenuPosition, pendingImagePosition,
                   textEditorState, authVars, held, timerVars,
                   syncStatus, fingers, localStorage, netVars, srvVars>>

\* the request of createItemAPI(item) (app.js 1532-1543)
createItemRequest(o) ==
    [kind |-> "POST /items", id |-> o.id, body |-> o]

\* the text item saveTextItem creates (app.js 1056-1064) from the trimmed text
newTextItem(text) ==
    [id |-> nextId, type |-> "text",
     x |-> OrElse(pendingTextPosition[1], Rat(canvasSize, 2)),
     y |-> OrElse(pendingTextPosition[2], Rat(canvasSize, 2)),
     width |-> Undef, height |-> Undef,
     content |-> text, style |-> textEditorState, z_index |-> Len(items)]

\* the save button of the text editor: saveTextItem (app.js 1039-1071) with
\* raw typed into the input
saveTextItem(raw) ==
    LET text == trim(raw)
        edited == [Obj(editingItemId) EXCEPT !.content = text, !.style = textEditorState]
    IN  /\ TextEditorShown
        /\ HandledArg("savetext", raw)
        /\ closeTextEditor
        /\ IF text = <<>>
           THEN UNCHANGED <<itemVars, netVars, localStorage>>
           ELSE IF editingItemId # NoItem
                THEN IF Has(items, editingItemId)
                     THEN /\ items' = ItemsWith(editingItemId, edited)
                          /\ Send(<<updateItemRequest(edited)>>)
                          /\ localStorage' = cacheOf(items', todos,
                                                     viewport_x, viewport_y, zoom)
                          /\ UNCHANGED <<todos, orphans, nextId>>
                     ELSE UNCHANGED <<itemVars, netVars, localStorage>>
                ELSE /\ items' = Append(items, newTextItem(text))
                     /\ nextId' = nextId + 1
                     /\ Send(<<createItemRequest(newTextItem(text))>>)
                     /\ localStorage' = cacheOf(items', todos, viewport_x, viewport_y, zoom)
                     /\ UNCHANGED <<todos, orphans>>
        /\ UNCHANGED <<envVars, viewVars, panVars, dragVars, keyVars,
                       joyVars, pinchVars, contextMenuPosition, pendingImagePosition,
                       textEditorState, authVars, held, timerVars,
                       syncStatus, fingers, srvVars>>

\* an image is stored as decoded, whatever its size
imageSizeUncapped(w, h) ==
    <<R(w), R(h)>>

\* the width and height addImageItem stores for a w x h image (app.js 1103-1111)
imageSize(w, h) ==
    LET ratio == RMin(Rat(maxSize, w), Rat(maxSize, h))
    IN  IF w > maxSize \/ h > maxSize
        THEN <<RMul(R(w), ratio), RMul(R(h), ratio)>>
        ELSE <<R(w), R(h)>>

\* the image item addImageItem creates (app.js 1113-1123); (x, y) is Undef
\* when the image comes from the file input
newImageItem(w, h, x, y) ==
    [id |-> nextId, type |-> "image",
     x |-> OrElse(x, OrElse(pendingImagePosition[1], Rat(canvasSize, 2))),
     y |-> OrElse(y, OrElse(pendingImagePosition[2], Rat(canvasSize, 2))),
     width |-> imageSize(w, h)[1], height |-> imageSize(w, h)[2],
     content |-> <<"d", "a", "t", "a">>, style |-> "none", z_index |-> Len(items)]

\* img.onload of addImageItem(dataUrl, x, y) (app.js 1099-1131) for a decoded
\* image of w x h pixels
addImageItem(w, h, x, y) ==
    /\ page = "open"
    /\ steps < budget
    /\ steps' = steps + 1
    /\ budget' = budget
    /\ last' = [Ev("addimage", x, y) EXCEPT !.arg = <<w, h>>]
    /\ items' = Append(items, newImageItem(w, h, x, y))
    /\ nextId' = nextId + 1
    /\ Send(<<createItemRequest(newImageItem(w, h, x, y))>>)
    /\ localStorage' = cacheOf(items', todos, viewport_x, viewport_y, zoom)
    /\ pendingImagePosition' = NoPos
    /\ UNCHANGED <<envVars, viewVars, panVars, todos, orphans, dragVars,
                   keyVars, joyVars, pinchVars, contextMenuPosition, pendingTextPosition,
                   editingItemId, textEditorState, authVars, held, timerVars,
                   syncStatus, fingers, srvVars>>

(***************************************************************************)
(* Todos                                                                   *)
(***************************************************************************)
\* the request of createTodoAPI(todo) (app.js 1570-1581)
createTodoRequest(t) ==
    [kind |-> "POST /todos", id |-> t.id, body |-> t]

\* the request of updateTodoAPI(todo) (app.js 1583-1594)
updateTodoRequest(t) ==
    [kind |-> "PUT /todos", id |-> t.id, body |-> t]

\* the request of deleteTodoAPI(id) (app.js 1596-1606)
deleteTodoRequest(id) ==
    [kind |-> "DELETE /todos", id |-> id, body |-> [none |-> TRUE]]

\* the todo saveTodoItem creates (app.js 1395-1401)
newTodo(text, priority) ==
    [id |-> nextId, text |-> text, completed |-> FALSE, priority |-> priority,
     created_at |-> Now]

\* the save button of the todo editor: saveTodoItem (app.js 1389-1408) with
\* raw typed into the title and the priority picked (todoEditorState.priority)
saveTodoItem(raw, priority) ==
    LET text == trim(raw)
    IN  /\ HandledArg("savetodo", raw)
        /\ IF text = <<>>
           THEN UNCHANGED <<itemVars, netVars, localStorage>>
           ELSE /\ todos' = Append(todos, newTodo(text, priority))
                /\ nextId' = nextId + 1
                /\ Send(<<createTodoRequest(newTodo(text, priority))>>)
                /\ localStorage' = cacheOf(items, todos', viewport_x, viewport_y, zoom)
                /\ UNCHANGED <<items, orphans>>
        /\ UNCHANGED <<envVars, viewVars, panVars, dragVars, keyVars,
                       joyVars, pinchVars, editVars, authVars, held, timerVars,
                       syncStatus, fingers, srvVars>>

\* toggleTodo (app.js 1410-1417)
toggleTodo(id) ==
    LET i == IndexOf(todos, id)
        t == [todos[i] EXCEPT !.completed = ~todos[i].completed]
    IN  /\ Has(todos, id)
        /\ HandledArg("toggletodo", id)
        /\ todos' = [todos EXCEPT ![i] = t]
        /\ Send(<<updateTodoRequest(t)>>)
        /\ localStorage' = cacheOf(items, todos', viewport_x, viewport_y, zoom)
        /\ UNCHANGED <<envVars, viewVars, panVars, items, orphans, nextId, dragVars, keyVars, joyVars, pinchVars, editVars, authVars, held,
                       timerVars, syncStatus, fingers, srvVars>>

\* deleteTodo (app.js 1419-1426)
deleteTodo(id) ==
    /\ Has(todos, id)
    /\ HandledArg("deletetodo", id)
    /\ todos' = RemoveAt(todos, IndexOf(todos, id))
    /\ Send(<<deleteTodoRequest(id)>>)
    /\ localStorage' = cacheOf(items, todos', viewport_x, viewport_y, zoom)
    /\ UNCHANGED <<envVars, viewVars, panVars, items, orphans, nextId, selectedItem,
                   dragVars, keyVars, joyVars, pinchVars, editVars, authVars, held,
                   timerVars, syncStatus, fingers, srvVars>>

(***************************************************************************)
(* Navigation loops                                                        *)
(***************************************************************************)
\* startJoystickNavigation (app.js 441-445): the flag it sets and the frame
\* its first, synchronous call of joystickNavigationLoop (452-469) requests
startJoystickNavigation ==
    IF joystickNavigating
    THEN UNCHANGED <<joystickNavigating, joyFrames>>
    ELSE /\ joystickNavigating' = TRUE
         /\ joyFrames' = joyFrames + 1

\* the origin after startJoystickNavigation, called with joystick state js
originAfterJoystickStart(js) ==
    IF joystickNavigating
    THEN <<viewport_x, viewport_y>>
    ELSE joystickStep(viewport_x, viewport_y, js, zoom)

\* an animation frame runs a pending callback of joystickNavigationLoop
\* (app.js 452-469)
JoystickFrame ==
    /\ joyFrames > 0
    /\ Handled("joyframe", R(0), R(0))
    /\ IF joystickNavigating
       THEN /\ viewport_x' = joystickStep(viewport_x, viewport_y, joystickState, zoom)[1]
            /\ viewport_y' = joystickStep(viewport_x, viewport_y, joystickState, zoom)[2]
            /\ joyFrames' = joyFrames
       ELSE /\ UNCHANGED <<viewport_x, viewport_y>>
            /\ joyFrames' = joyFrames - 1
    /\ UNCHANGED <<envVars, zoom, panVars, itemVars, dragVars, keyVars, pinchVars,
                   joystickState, joystickNavigating,
                   editVars, authVars, held, timerVars,
                   syncStatus, fingers, localStorage, netVars, srvVars>>

\* an animation frame runs a pending callback of navigationLoop (app.js 891-923)
NavigationFrame ==
    /\ navFrames > 0
    /\ Handled("navframe", R(0), R(0))
    /\ IF ~isNavigating \/ keysPressed = {}
       THEN /\ isNavigating' = FALSE
            /\ navFrames' = navFrames - 1
            /\ UNCHANGED <<viewport_x, viewport_y>>
       ELSE /\ viewport_x' = navigationStep(viewport_x, viewport_y, keysPressed,
                                            isShiftPressed, zoom)[1]
            /\ viewport_y' = navigationStep(viewport_x, viewport_y, keysPressed,
                                            isShiftPressed, zoom)[2]
            /\ UNCHANGED <<isNavigating, navFrames>>
    /\ UNCHANGED <<envVars, zoom, panVars, itemVars, dragVars, joyVars, pinchVars,
                   isSpacePressed, keysPressed, isShiftPressed,
                   editVars, authVars, held, timerVars,
                   syncStatus, fingers, localStorage, netVars, srvVars>>

(***************************************************************************)
(* Keyboard                                                                *)
(***************************************************************************)
Keys ==
    NavKeys \cup {"Space", "Shift", "Escape", "Delete", "Backspace", "r"}

\* keydown of a navigation key (app.js 800-809) with startNavigation (879-883)
\* and its first, synchronous call of navigationLoop
navKeyDown(key) ==
    LET navKey == normalizeNavKey(key)
        keys == keysPressed \cup {navKey}
        starts == navKey \notin keysPressed /\ ~isNavigating
        to == navigationStep(viewport_x, viewport_y, keys, isShiftPressed', zoom)
    IN  /\ keysPressed' = keys
        /\ isNavigating' = (isNavigating \/ navKey \notin keysPressed)
        /\ navFrames' = IF starts THEN navFrames + 1 ELSE navFrames
        /\ viewport_x' = IF starts THEN to[1] ELSE viewport_x
        /\ viewport_y' = IF starts THEN to[2] ELSE viewport_y
        /\ UNCHANGED <<zoom, isSpacePressed, itemVars, selectedItem, editVars,
                       timerVars, netVars, localStorage>>

\* onKeyDown (app.js 781-845), the target not being an input field; the keys
\* that open the text editor or the file dialog are not modelled here
onKeyDown(key) ==
    /\ key \in Keys
    /\ HandledArg("keydown", key)
    /\ held' = held \cup {key}
    /\ isShiftPressed' = (isShiftPressed \/ "Shift" \in held')
    /\ IF key = "Space" /\ ~isSpacePressed
       THEN /\ isSpacePressed' = TRUE
            /\ UNCHANGED <<viewVars, keysPressed, isNavigating, navFrames, itemVars,
                           selectedItem, editVars, timerVars, netVars, localStorage>>
       ELSE IF key \in NavKeys
       THEN navKeyDown(key)
       ELSE IF key = "r"
       THEN /\ resetView
            /\ UNCHANGED <<isSpacePressed, keysPressed, isNavigating, navFrames, itemVars,
                           selectedItem, editVars, netVars, localStorage>>
       ELSE IF key \in {"Delete", "Backspace"} /\ selectedItem # NoItem
       THEN /\ deleteItem(selectedItem)
            /\ UNCHANGED <<viewVars, isSpacePressed, keysPressed, isNavigating, navFrames,
                           todos, nextId, editVars, timerVars>>
       ELSE IF key = "Escape"
       THEN /\ selectedItem' = NoItem
            /\ editingItemId' = NoItem
            /\ pendingTextPosition' = NoPos
            /\ UNCHANGED <<viewVars, isSpacePressed, keysPressed, isNavigating, navFrames,
                           itemVars, pendingImagePosition, contextMenuPosition,
                           textEditorState, timerVars, netVars, localStorage>>
       ELSE UNCHANGED <<viewVars, isSpacePressed, keysPressed, isNavigating, navFrames,
                        itemVars, selectedItem, editVars, timerVars, netVars, localStorage>>
    /\ UNCHANGED <<envVars, panVars, joyVars, pinchVars,
                   draggedItem, dragOffset, resizingItem, resizeStart,
                   authVars, syncStatus, fingers, srvVars>>

\* onKeyUp (app.js 847-867) with stopNavigation (885-889), whose call of the
\* undefined method saveViewportPosition throws after isNavigating is cleared
onKeyUp(key) ==
    /\ key \in held
    /\ HandledArg("keyup", key)
    /\ held' = held \ {key}
    /\ isSpacePressed' = (isSpacePressed /\ key # "Space")
    /\ isShiftPressed' = (isShiftPressed /\ key # "Shift")
    /\ keysPressed' = IF key \in NavKeys THEN keysPressed \ {normalizeNavKey(key)}
                      ELSE keysPressed
    /\ isNavigating' = (isNavigating /\ ~(key \in NavKeys /\ keysPressed' = {}))
    /\ UNCHANGED <<envVars, viewVars, panVars, itemVars, dragVars, joyVars, pinchVars,
                   navFrames, editVars, authVars, timerVars,
                   syncStatus, fingers, localStorage, netVars, srvVars>>

(***************************************************************************)
(* Gesture router: touch                                                   *)
(***************************************************************************)
FingerIds(fs) ==
    {fs[i].id : i \in DOMAIN fs}

\* onJoystickStart (app.js 326-341): the joystick state it sets; the touch it
\* records is e.touches[0]
joystickTouched(fs) ==
    [joystickState EXCEPT !.active = TRUE, !.touchId = fs[1].id]

\* onJoystickMove (app.js 343-359): the joystick state after a touchmove
joystickMoved(fs) ==
    IF joystickState.active /\ joystickState.touchId \in FingerIds(fs)
    THEN LET t == fs[IndexOf(fs, joystickState.touchId)]
         IN  [joystickState EXCEPT !.currentX = joystickDirection(t.x, t.y)[1],
                                   !.currentY = joystickDirection(t.x, t.y)[2]]
    ELSE joystickState

\* a finger touches the screen on the canvas background, on an item or on the
\* joystick stick: onTouchStart (app.js 737-746), onJoystickStart (326-341)
TouchStart(target, x, y) ==
    LET id == CHOOSE i \in 1..(Len(fingers) + 1) : i \notin FingerIds(fingers)
        fs == Append(fingers, [id |-> id, target |-> target, x |-> x, y |-> y])
    IN  /\ Len(fingers) < MaxFingers
        /\ Handled("touchstart", R(x), R(y))
        /\ fingers' = fs
        /\ IF target = "stick"
           THEN /\ joystickState' = joystickTouched(fs)
                /\ startJoystickNavigation
                /\ viewport_x' = originAfterJoystickStart(joystickTouched(fs))[1]
                /\ viewport_y' = originAfterJoystickStart(joystickTouched(fs))[2]
                /\ UNCHANGED <<panVars, pinchVars>>
           ELSE /\ UNCHANGED <<viewport_x, viewport_y, joyVars>>
                /\ IF Len(fs) = 1 /\ target # "item"
                   THEN /\ startPan(x, y)
                        /\ UNCHANGED pinchVars
                   ELSE IF Len(fs) = 2
                   THEN /\ pinchStart' = getPinchDistance(fs)
                        /\ pinchZoomStart' = zoom
                        /\ UNCHANGED panVars
                   ELSE UNCHANGED <<panVars, pinchVars>>
        /\ UNCHANGED <<envVars, zoom, itemVars, dragVars, keyVars,
                       editVars, authVars, held, timerVars,
                       syncStatus, localStorage, netVars, srvVars>>

\* a pinch that leaves the zoom as it is
pinchZoomKeep(fs) ==
    zoom

\* the zoom a pinch sets (app.js 755-757), fs the touches of the event
pinchZoom(fs) ==
    clampZoom(RMul(pinchZoomStart, Rat(getPinchDistance(fs), pinchStart)))

\* finger i moves: onTouchMove (app.js 748-761) when the finger started on
\* the viewport, and the document listener onJoystickMove (343-359)
TouchMove(i, x, y) ==
    LET fs == [fingers EXCEPT ![i].x = x, ![i].y = y]
        onViewport == fingers[i].target # "stick"
    IN  /\ i \in DOMAIN fingers
        /\ Handled("touchmove", R(x), R(y))
        /\ fingers' = fs
        /\ IF onViewport /\ Len(fs) = 1 /\ isPanning
           THEN doPan(fs[1].x, fs[1].y)
           ELSE IF onViewport /\ Len(fs) = 2 /\ pinchStart # 0
           THEN /\ zoom' = pinchZoom(fs)
                /\ UNCHANGED <<viewport_x, viewport_y, panVars>>
           ELSE UNCHANGED <<viewVars, panVars>>
        /\ joystickState' = joystickMoved(fs)
        /\ UNCHANGED <<envVars, itemVars, dragVars, keyVars, pinchVars,
                       joystickNavigating, joyFrames,
                       editVars, authVars, held, timerVars,
                       syncStatus, localStorage, netVars, srvVars>>

\* finger i lifts: onTouchEnd (app.js 763-769) when the finger started on the
\* viewport, and the document listener onJoystickEnd (361-376)
TouchEnd(i) ==
    LET fs == RemoveAt(fingers, i)
        onViewport == fingers[i].target # "stick"
    IN  /\ i \in DOMAIN fingers
        /\ Handled("touchend", R(0), R(0))
        /\ fingers' = fs
        /\ IF onViewport /\ Len(fs) = 0
           THEN /\ endPan
                /\ pinchStart' = 0
                /\ UNCHANGED <<panStart, pinchZoomStart>>
           ELSE UNCHANGED <<panVars, pinchVars, timerVars>>
        /\ IF joystickState.active /\ joystickState.touchId \notin FingerIds(fs)
           THEN /\ joystickState' = joystickReleased(joystickState)
                /\ joystickNavigating' = FALSE
                /\ UNCHANGED joyFrames
           ELSE UNCHANGED joyVars
        /\ UNCHANGED <<envVars, viewVars, itemVars, dragVars, keyVars,
                       editVars, authVars, held,
                       syncStatus, localStorage, netVars, srvVars>>

(***************************************************************************)
(* Joystick, driven by the mouse                                           *)
(***************************************************************************)
\* mousedown on the stick: onJoystickMouseStart (app.js 378-392)
onJoystickMouseStart ==
    LET js == [joystickState EXCEPT !.active = TRUE, !.mouseDown = TRUE]
    IN  /\ Handled("joydown", R(0), R(0))
        /\ joystickState' = js
        /\ startJoystickNavigation
        /\ viewport_x' = originAfterJoystickStart(js)[1]
        /\ viewport_y' = originAfterJoystickStart(js)[2]
        /\ UNCHANGED <<envVars, zoom, panVars, itemVars, dragVars, keyVars, pinchVars,
                       editVars, authVars, held, timerVars,
                       syncStatus, fingers, localStorage, netVars, srvVars>>

\* mousemove outside the viewport: onJoystickMouseMove (app.js 394-397)
onJoystickMouseMove(x, y) ==
    /\ joystickState.active /\ joystickState.mouseDown
    /\ Handled("joymove", R(x), R(y))
    /\ joystickState' = [joystickState EXCEPT !.currentX = joystickDirection(x, y)[1],
                                              !.currentY = joystickDirection(x, y)[2]]
    /\ UNCHANGED <<envVars, viewVars, panVars, itemVars, dragVars, keyVars, pinchVars,
                   joystickNavigating, joyFrames,
                   editVars, authVars, held, timerVars,
                   syncStatus, fingers, localStorage, netVars, srvVars>>

\* mouseup outside the viewport: only the document listener onJoystickMouseEnd
JoystickMouseUp ==
    /\ joystickState.mouseDown
    /\ Handled("joyup", R(0), R(0))
    /\ onJoystickMouseEnd
    /\ UNCHANGED <<envVars, viewVars, panVars, itemVars, dragVars, keyVars, pinchVars,
                   editVars, authVars, held, timerVars,
                   syncStatus, fingers, localStorage, netVars, srvVars>>

(***************************************************************************)
(* Sync client: debounced viewport write, unload, load                     *)
(***************************************************************************)
\* the request of syncViewportToServer (app.js 1613-1624)
viewportRequest ==
    [kind |-> "PUT /viewport", id |-> NoItem,
     body |-> viewportBody(viewport_x, viewport_y, zoom)]

\* the timer set by scheduleSyncViewport fires: syncViewportToServer
TimerFire(t) ==
    /\ t \in timers
    /\ Handled("timer", R(0), R(0))
    /\ timers' = timers \ {t}
    /\ localStorage' = cacheOf(items, todos, viewport_x, viewport_y, zoom)
    /\ Send(<<viewportRequest>>)
    /\ UNCHANGED <<envVars, viewVars, panVars, itemVars, dragVars, keyVars, joyVars,
                   pinchVars, editVars, authVars, held, syncTimeout, nextTimer,
                   syncStatus, fingers, srvVars>>

\* the request of syncToServer (app.js 1626-1642)
syncRequest ==
    [kind |-> "POST /sync", id |-> NoItem,
     body |-> [items |-> items, todos |-> todos,
               viewport |-> viewportBody(viewport_x, viewport_y, zoom)]]

\* the fields the constructor sets (app.js 86-139), and the fields first
\* assigned later, as they are before their first assignment
Constructed ==
    /\ isPanning' = FALSE
    /\ isSpacePressed' = FALSE
    /\ panStart' = <<0, 0>>
    /\ selectedItem' = NoItem
    /\ draggedItem' = NoItem
    /\ dragOffset' = <<R(0), R(0)>>
    /\ resizingItem' = NoItem
    /\ resizeStart' = [x |-> 0, y |-> 0, width |-> R(0), height |-> R(0)]
    /\ editingItemId' = NoItem
    /\ contextMenuPosition' = <<R(0), R(0)>>
    /\ pendingTextPosition' = NoPos
    /\ pendingImagePosition' = NoPos
    /\ textEditorState' = "default"
    /\ keysPressed' = {}
    /\ isNavigating' = FALSE
    /\ isShiftPressed' = FALSE
    /\ joystickState' = [active |-> FALSE, currentX |-> R(0), currentY |-> R(0),
                         mouseDown |-> FALSE, touchId |-> NoItem]
    /\ joystickNavigating' = FALSE
    /\ pinchStart' = 0
    /\ pinchZoomStart' = Undef
    /\ syncTimeout' = NoItem
    /\ orphans' = <<>>

\* the origin the constructor sets (app.js 92-93)
constructedX ==
    RSub(Rat(canvasSize, 2), Rat(innerWidth, 2))

constructedY ==
    RSub(Rat(canvasSize, 2), Rat(innerHeight, 2))

\* the page is left: beforeunload calls syncToServer (app.js 293), and the
\* application object, its timers and its animation frames are gone
Unload ==
    /\ Handled("unload", R(0), R(0))
    /\ page' = "closed"
    /\ localStorage' = cacheOf(items, todos, viewport_x, viewport_y, zoom)
    /\ Send(<<syncRequest>>)
    /\ Constructed
    /\ items' = <<>>
    /\ todos' = <<>>
    /\ viewport_x' = constructedX
    /\ viewport_y' = constructedY
    /\ zoom' = R(1)
    /\ timers' = {}
    /\ navFrames' = 0
    /\ joyFrames' = 0
    /\ fingers' = <<>>
    /\ held' = {}
    /\ syncStatus' = "syncing"
    /\ UNCHANGED <<innerWidth, innerHeight, nextId, nextTimer, authVars, srvVars>>

\* JSON.stringify(style) (server.js 210, 228, 336): the text of the style column
stringifyStyle(style) ==
    [json |-> style]

\* item.style ? JSON.parse(item.style) : {} (server.js 161-164)
parseStyle(column) ==
    column.json

\* a field of a JSON body, or the default its destructuring gives
\* (server.js 203, 260, 312)
Field(body, f, default) ==
    IF f \in DOMAIN body THEN body[f] ELSE default

\* the row an INSERT INTO items makes of item for board b (server.js 205-210,
\* 328-339); an absent width or height is bound as NULL; z is the z_index
\* bound; the timestamp columns are left out
itemRow(item, b, z) ==
    [id |-> item.id, board_id |-> b, type |-> item.type, x |-> item.x, y |-> item.y,
     width |-> Field(item, "width", Undef), height |-> Field(item, "height", Undef),
     content |-> Field(item, "content", <<>>),
     style |-> stringifyStyle(Field(item, "style", "none")), z_index |-> z]

\* the item GET /api/board/:id makes of a row (server.js 161-164)
itemOfRow(row) ==
    [row EXCEPT !.style = parseStyle(row.style)]

\* completed ? 1 : 0 (server.js 282, 347)
completedColumn(completed) ==
    IF completed THEN 1 ELSE 0

\* the row an INSERT INTO todos of the full sync makes (server.js 341-350)
todoRow(todo, b) ==
    [id |-> todo.id, board_id |-> b, text |-> todo.text,
     completed |-> completedColumn(todo.completed),
     priority |-> todo.priority, created_at |-> todo.created_at]

\* the todo GET /api/board/:id makes of a row: completed: !!t.completed
\* (server.js 174)
todoOfRow(row) ==
    [row EXCEPT !.completed = (row.completed # 0)]

\* the rows of a list, in the order of insertion
Rows(seq, Row(_)) ==
    [i \in DOMAIN seq |-> Row(seq[i])]

\* item.z_index || 0 (server.js 336)
syncItemRow(item, b) ==
    itemRow(item, b, IF item.z_index # 0 THEN item.z_index ELSE 0)

\* the rows the full sync inserts for board b (server.js 328-351)
syncItemRows(is, b) ==
    [i \in DOMAIN is |-> syncItemRow(is[i], b)]

syncTodoRows(ts, b) ==
    [i \in DOMAIN ts |-> todoRow(ts[i], b)]

RECURSIVE InsertByCreated(_, _)
InsertByCreated(sorted, t) ==
    IF sorted = <<>> THEN <<t>>
    ELSE IF sorted[Len(sorted)].created_at >= t.created_at THEN Append(sorted, t)
    ELSE Append(InsertByCreated(SubSeq(sorted, 1, Len(sorted) - 1), t), sorted[Len(sorted)])

RECURSIVE SortByCreatedDesc(_)
\* the rows ORDER BY created_at DESC (server.js 158), ties in row order
SortByCreatedDesc(rows) ==
    IF rows = <<>> THEN <<>>
    ELSE InsertByCreated(SortByCreatedDesc(SubSeq(rows, 1, Len(rows) - 1)), rows[Len(rows)])

RECURSIVE InsertByZ(_, _)
InsertByZ(sorted, it) ==
    IF sorted = <<>> THEN <<it>>
    ELSE IF sorted[Len(sorted)].z_index <= it.z_index THEN Append(sorted, it)
    ELSE Append(InsertByZ(SubSeq(sorted, 1, Len(sorted) - 1), it), sorted[Len(sorted)])

RECURSIVE SortByZ(_)
\* the rows ORDER BY z_index (server.js 157), ties in row order
SortByZ(rows) ==
    IF rows = <<>> THEN <<>>
    ELSE InsertByZ(SortByZ(SubSeq(rows, 1, Len(rows) - 1)), rows[Len(rows)])

\* the defaults of a new row of boards (server.js 59-61)
newBoard ==
    [viewport_x |-> R(0), viewport_y |-> R(0), zoom |-> R(1)]

\* the row of board b once GET /api/board/:id has made sure it exists
\* (server.js 150-155)
boardRow(b) ==
    IF b \in DOMAIN boards THEN boards[b] ELSE newBoard

\* the rows of a table WHERE board_id = b
OfBoard(rows, b) ==
    SelectSeq(rows, LAMBDA r : r.board_id = b)

\* the rows of a table of the other boards
NotOfBoard(rows, b) ==
    SelectSeq(rows, LAMBDA r : r.board_id # b)

\* the response of GET /api/board/b (server.js 146-180)
boardResponseOf(b) ==
    [board |-> [viewport |-> [x |-> boardRow(b).viewport_x,
                              y |-> boardRow(b).viewport_y],
                zoom |-> boardRow(b).zoom],
     items |-> Rows(SortByZ(OfBoard(srvItems, b)), itemOfRow),
     todos |-> Rows(SortByCreatedDesc(OfBoard(srvTodos, b)), todoOfRow)]

\* the response of GET /api/board/default, the board of the client (app.js 86)
boardResponse ==
    boardResponseOf(boardId)

(***************************************************************************)
(* The store (server.js)                                                   *)
(***************************************************************************)
\* req.headers['x-auth-token'] || req.query.token (server.js 27, 126)
tokenOf(m) ==
    IF m.token # NoToken THEN m.token ELSE m.query

\* req.headers['x-auth-token'] (server.js 136)
headerToken(m) ==
    m.token

\* a check that lets every request with a token pass
requireAuthAny(m) ==
    tokenOf(m) # NoToken

\* requireAuth (server.js 26-34): the request carries a token of the session map
requireAuth(m) ==
    tokenOf(m) # NoToken /\ tokenOf(m) \in DOMAIN sessions

\* a middleware that leaves the expiry of the session as it is
refreshedNever(m) ==
    sessions

\* requireAuth, when it lets the request pass, refreshes the expiry of the
\* session (server.js 32)
refreshed(m) ==
    [sessions EXCEPT ![tokenOf(m)] = clock + sessionLifetime]

\* the session map without token t
WithoutToken(t) ==
    [u \in DOMAIN sessions \ {t} |-> sessions[u]]

\* the callback of the hourly setInterval at time now (server.js 37-42)
sweep(now) ==
    [u \in {t \in DOMAIN sessions : ~(sessions[t] < now)} |-> sessions[u]]

\* the time of the latest sweep up to time t; the server started at time 0
latestSweep(t) ==
    (t \div sweepInterval) * sweepInterval

\* a GET /api/board/:id that creates no board
getBoardOnly(m) ==
    UNCHANGED <<boards, srvItems, srvTodos>>

\* GET /api/board/:id (server.js 146-180): the board is created when absent
getBoard(m) ==
    /\ boards' = [b \in DOMAIN boards \cup {m.board} |-> boardRow(b)]
    /\ UNCHANGED <<srvItems, srvTodos>>

\* PUT /api/board/:id/viewport (server.js 183-194): an UPDATE of the row, if
\* there is one
putViewport(m) ==
    /\ boards' = [b \in DOMAIN boards |->
                     IF b = m.board
                     THEN [viewport_x |-> m.body.x, viewport_y |-> m.body.y,
                           zoom |-> m.body.zoom]
                     ELSE boards[b]]
    /\ UNCHANGED <<srvItems, srvTodos>>

\* the board of a request: req.params.id of the board routes, board_id of a
\* POST body, 'default' when the body has none (server.js 203, 260, 312)
boardOf(m) ==
    m.board

\* the viewport UPDATE of POST /api/sync (server.js 316-320)
syncedBoards(m) ==
    [b \in DOMAIN boards |->
        IF b = boardOf(m) /\ "viewport" \in DOMAIN m.body
        THEN [viewport_x |-> m.body.viewport.x, viewport_y |-> m.body.viewport.y,
              zoom |-> m.body.viewport.zoom]
        ELSE boards[b]]

\* POST /api/sync that inserts the rows sent and deletes none
postSyncKeepRows(m) ==
    /\ boards' = syncedBoards(m)
    /\ srvItems' = srvItems \o syncItemRows(m.body.items, boardOf(m))
    /\ srvTodos' = srvTodos \o syncTodoRows(m.body.todos, boardOf(m))

\* POST /api/sync (server.js 310-357): the viewport, then delete-all and
\* re-insert of the board's items and todos, in one transaction
postSync(m) ==
    /\ boards' = syncedBoards(m)
    /\ srvItems' = NotOfBoard(srvItems, boardOf(m)) \o syncItemRows(m.body.items, boardOf(m))
    /\ srvTodos' = NotOfBoard(srvTodos, boardOf(m)) \o syncTodoRows(m.body.todos, boardOf(m))

\* POST /api/items (server.js 201-214): z_index = 0 when absent
postItem(m) ==
    /\ srvItems' = Append(srvItems, itemRow(m.body, boardOf(m), Field(m.body, "z_index", 0)))
    /\ UNCHANGED <<boards, srvTodos>>

\* the width or height of a PUT body is supplied: the client leaves it out
\* (JSON.stringify) when the item has none
SuppliedSize(body, f) ==
    f \in DOMAIN body /\ body[f] # Undef

\* PUT /api/items/:id that sets every column, NULL where the body has no field
putItemWhole(m) ==
    /\ srvItems' = IF Has(srvItems, m.id)
                   THEN [srvItems EXCEPT ![IndexOf(srvItems, m.id)] =
                            [@ EXCEPT !.x = Field(m.body, "x", Undef),
                                      !.y = Field(m.body, "y", Undef),
                                      !.width = Field(m.body, "width", Undef),
                                      !.height = Field(m.body, "height", Undef),
                                      !.content = Field(m.body, "content", <<>>),
                                      !.style = stringifyStyle(Field(m.body, "style", "none")),
                                      !.z_index = Field(m.body, "z_index", 0)]]
                   ELSE srvItems
    /\ UNCHANGED <<boards, srvTodos>>

\* a PUT /api/items/:id that inserts a row when the id has none
putItemUpsert(m) ==
    /\ srvItems' = IF Has(srvItems, m.id) THEN srvItems
                   ELSE Append(srvItems,
                               [id |-> m.id, board_id |-> boardOf(m), type |-> "text",
                                x |-> Field(m.body, "x", R(0)), y |-> Field(m.body, "y", R(0)),
                                width |-> Undef, height |-> Undef, content |-> <<>>,
                                style |-> stringifyStyle("none"), z_index |-> 0])
    /\ UNCHANGED <<boards, srvTodos>>

\* PUT /api/items/:id (server.js 217-241): each column the body supplies is
\* updated, in the row with the id, if there is one
putItem(m) ==
    /\ srvItems' = IF Has(srvItems, m.id)
                   THEN [srvItems EXCEPT ![IndexOf(srvItems, m.id)] =
                            [@ EXCEPT !.x = Field(m.body, "x", @),
                                      !.y = Field(m.body, "y", @),
                                      !.width = IF SuppliedSize(m.body, "width")
                                                THEN m.body.width ELSE @,
                                      !.height = IF SuppliedSize(m.body, "height")
                                                 THEN m.body.height ELSE @,
                                      !.content = Field(m.body, "content", @),
                                      !.style = IF "style" \in DOMAIN m.body
                                                THEN stringifyStyle(m.body.style) ELSE @,
                                      !.z_index = Field(m.body, "z_index", @)]]
                   ELSE srvItems
    /\ UNCHANGED <<boards, srvTodos>>

\* DELETE /api/items/:id (server.js 244-251)
deleteItemRow(m) ==
    /\ srvItems' = IF Has(srvItems, m.id)
                   THEN RemoveAt(srvItems, IndexOf(srvItems, m.id))
                   ELSE srvItems
    /\ UNCHANGED <<boards, srvTodos>>

\* POST /api/todos (server.js 258-271): completed takes the column default 0,
\* priority 'medium' when absent, and created_at the server's clock
postTodo(m) ==
    /\ srvTodos' = Append(srvTodos, [id |-> m.body.id, board_id |-> boardOf(m),
                                     text |-> m.body.text, completed |-> 0,
                                     priority |-> Field(m.body, "priority", "medium"),
                                     created_at |-> Now])
    /\ UNCHANGED <<boards, srvItems>>

\* PUT /api/todos/:id (server.js 274-294): each column the body supplies
putTodo(m) ==
    /\ srvTodos' = IF Has(srvTodos, m.id)
                   THEN [srvTodos EXCEPT ![IndexOf(srvTodos, m.id)] =
                            [@ EXCEPT !.text = Field(m.body, "text", @),
                                      !.completed = IF "completed" \in DOMAIN m.body
                                                    THEN completedColumn(m.body.completed)
                                                    ELSE @,
                                      !.priority = Field(m.body, "priority", @)]]
                   ELSE srvTodos
    /\ UNCHANGED <<boards, srvItems>>

\* DELETE /api/todos/:id (server.js 297-304)
deleteTodoRow(m) ==
    /\ srvTodos' = IF Has(srvTodos, m.id)
                   THEN RemoveAt(srvTodos, IndexOf(srvTodos, m.id))
                   ELSE srvTodos
    /\ UNCHANGED <<boards, srvItems>>

\* the ids of a list are pairwise different
DistinctIds(seq) ==
    \A i, j \in DOMAIN seq : seq[i].id = seq[j].id => i = j

\* a statement of the handler of m throws: an INSERT of a row whose id is in
\* the table (PRIMARY KEY), that lacks a NOT NULL column, or whose board has
\* no row (FOREIGN KEY, server.js 79, 90; better-sqlite3 enforces them)
Throws(m) ==
    CASE m.kind = "POST /items" ->
             \/ Has(srvItems, m.body.id)
             \/ ~({"type", "x", "y"} \subseteq DOMAIN m.body)
             \/ boardOf(m) \notin DOMAIN boards
      [] m.kind = "POST /todos" ->
             \/ Has(srvTodos, m.body.id)
             \/ "text" \notin DOMAIN m.body
             \/ boardOf(m) \notin DOMAIN boards
      [] m.kind = "POST /sync" ->
             \/ ~DistinctIds(m.body.items)
             \/ ~DistinctIds(m.body.todos)
             \/ \E i \in DOMAIN m.body.items :
                    Has(NotOfBoard(srvItems, boardOf(m)), m.body.items[i].id)
             \/ \E i \in DOMAIN m.body.todos :
                    Has(NotOfBoard(srvTodos, boardOf(m)), m.body.todos[i].id)
             \/ boardOf(m) \notin DOMAIN boards
                   /\ (m.body.items # <<>> \/ m.body.todos # <<>>)
      [] OTHER -> FALSE

\* the status of the response to m: 401 of requireAuth (server.js 29), 500 of
\* the catch blocks, 200 otherwise
statusOf(m) ==
    IF ~requireAuth(m) THEN 401 ELSE IF Throws(m) THEN 500 ELSE 200

\* the body of the response to m
replyOf(m) ==
    IF ~requireAuth(m) THEN [error |-> "Unauthorized", needsAuth |-> TRUE]
    ELSE IF Throws(m) THEN [error |-> "message", needsAuth |-> FALSE]
    ELSE IF m.kind = "GET /board" THEN boardResponseOf(m.board)
    ELSE [success |-> TRUE]

\* a full sync that fails outside a transaction: the viewport update and the
\* deletion of the board's items stay
halfSynced(m) ==
    IF m.kind = "POST /sync"
    THEN /\ boards' = syncedBoards(m)
         /\ srvItems' = NotOfBoard(srvItems, boardOf(m))
         /\ UNCHANGED srvTodos
    ELSE UNCHANGED srvVars

\* a statement of the handler of m has thrown: the transaction of the full
\* sync (server.js 314, 352) is rolled back, and the one statement of any
\* other route has changed nothing
rolledBack(m) ==
    UNCHANGED srvVars

\* the server handles the request m to a protected endpoint: requireAuth, then
\* the route; a statement that throws leaves the tables as they were (each is
\* one statement, or the transaction of the full sync)
Handle(m) ==
    IF ~requireAuth(m) THEN UNCHANGED <<srvVars, sessions>>
    ELSE /\ sessions' = refreshed(m)
         /\ IF Throws(m) THEN rolledBack(m)
            ELSE CASE m.kind = "GET /board" -> getBoard(m)
                   [] m.kind = "PUT /viewport" -> putViewport(m)
                   [] m.kind = "POST /sync" -> postSync(m)
                   [] m.kind = "PUT /items" -> putItem(m)
                   [] m.kind = "DELETE /items" -> deleteItemRow(m)
                   [] m.kind = "POST /items" -> postItem(m)
                   [] m.kind = "POST /todos" -> postTodo(m)
                   [] m.kind = "PUT /todos" -> putTodo(m)
                   [] m.kind = "DELETE /todos" -> deleteTodoRow(m)

\* a request in flight reaches the server and is handled; the client ignores
\* the response of its writes
Deliver(m) ==
    /\ m \in net
    /\ net' = net \ {m}
    /\ Served("deliver", m, statusOf(m), replyOf(m))
    /\ Handle(m)
    /\ UNCHANGED <<envVars, viewVars, panVars, itemVars, dragVars, keyVars, joyVars,
                   pinchVars, editVars, authToken, clock, nextToken, held, timerVars,
                   syncStatus, fingers, localStorage, nextMsg>>

\* a request of any client of the API reaches the server and is handled
Serve(m) ==
    /\ Served("serve", m, statusOf(m), replyOf(m))
    /\ Handle(m)
    /\ UNCHANGED <<envVars, viewVars, panVars, itemVars, dragVars, keyVars, joyVars,
                   pinchVars, editVars, authToken, clock, nextToken, held, timerVars,
                   syncStatus, fingers, localStorage, netVars>>

\* POST /api/auth/login (server.js 113-122) with the password pw
login(pw) ==
    /\ IF pw = AUTH_PASSWORD
       THEN /\ Served("login", [password |-> pw], 200, [success |-> TRUE, token |-> nextToken])
            /\ sessions' = [t \in DOMAIN sessions \cup {nextToken} |->
                               IF t = nextToken THEN clock + sessionLifetime ELSE sessions[t]]
            /\ nextToken' = nextToken + 1
       ELSE /\ Served("login", [password |-> pw], 401, [error |-> "Falsches Passwort"])
            /\ UNCHANGED <<sessions, nextToken>>
    /\ UNCHANGED <<envVars, viewVars, panVars, itemVars, dragVars, keyVars, joyVars,
                   pinchVars, editVars, authToken, clock, held, timerVars,
                   syncStatus, fingers, localStorage, netVars, srvVars>>

\* GET /api/auth/check (server.js 125-132)
authCheck(m) ==
    /\ Served("check", m, 200, [authenticated |-> requireAuth(m)])
    /\ UNCHANGED <<envVars, viewVars, panVars, itemVars, dragVars, keyVars, joyVars,
                   pinchVars, editVars, authVars, held, timerVars,
                   syncStatus, fingers, localStorage, netVars, srvVars>>

\* POST /api/auth/logout (server.js 135-139)
logout(m) ==
    /\ Served("logout", m, 200, [success |-> TRUE])
    /\ sessions' = IF headerToken(m) # NoToken THEN WithoutToken(headerToken(m))
                   ELSE sessions
    /\ UNCHANGED <<envVars, viewVars, panVars, itemVars, dragVars, keyVars, joyVars,
                   pinchVars, editVars, authToken, clock, nextToken, held, timerVars,
                   syncStatus, fingers, localStorage, netVars, srvVars>>

\* d half hours pass on the server: the clock advances and the sweeps that
\* fall due run; between two requests they add up to the latest of them
Pass(d) ==
    /\ Step("pass", R(0), R(0))
    /\ clock' = clock + d
    /\ sessions' = IF latestSweep(clock + d) > clock THEN sweep(latestSweep(clock + d))
                   ELSE sessions
    /\ UNCHANGED <<envVars, viewVars, panVars, itemVars, dragVars, keyVars, joyVars,
                   pinchVars, editVars, authToken, nextToken, held, timerVars,
                   syncStatus, fingers, localStorage, netVars, srvVars>>

\* a request in flight fails, and is sent again
DropAndRetry(m) ==
    /\ m \in net
    /\ net' = (net \ {m}) \cup {[m EXCEPT !.seq = nextMsg]}
    /\ nextMsg' = nextMsg + 1
    /\ StepArg("drop", m)
    /\ UNCHANGED <<envVars, viewVars, panVars, itemVars, dragVars, keyVars, joyVars,
                   pinchVars, editVars, authVars, held, timerVars, syncStatus, fingers,
                   localStorage, srvVars>>

\* a request in flight fails (the fetch rejects): logged and swallowed
\* (app.js 1540-1542, 1553-1555, 1565-1567, 1578-1580, 1591-1593, 1603-1605,
\* 1621-1623, 1639-1641)
Drop(m) ==
    /\ m \in net
    /\ net' = net \ {m}
    /\ StepArg("drop", m)
    /\ UNCHANGED <<envVars, viewVars, panVars, itemVars, dragVars, keyVars, joyVars,
                   pinchVars, editVars, authVars, held, timerVars, syncStatus, fingers,
                   localStorage, nextMsg, srvVars>>

\* the request of loadFromServer (app.js 1480-1482)
loadRequest ==
    [kind |-> "GET /board", id |-> NoItem, body |-> [none |-> TRUE],
     board |-> boardId, token |-> authToken, query |-> NoToken]

\* the request of checkAuth (app.js 51-53)
checkRequest ==
    [kind |-> "GET /auth/check", id |-> NoItem, body |-> [none |-> TRUE],
     board |-> boardId, token |-> authToken, query |-> NoToken]

\* the page is loaded and checkAuth (app.js 44-68) shows the login screen:
\* there is no cached token, or the check does not arrive (reach = FALSE), or
\* it reports authenticated = false, and then the cached token is cleared
checkAuth(reach) ==
    /\ page = "closed"
    /\ authToken = NoToken \/ ~reach \/ ~requireAuth(checkRequest)
    /\ page' = "login"
    /\ StepArg("checkauth", reach)
    /\ authToken' = IF reach /\ ~requireAuth(checkRequest) THEN NoToken ELSE authToken
    /\ UNCHANGED <<innerWidth, innerHeight, viewVars, panVars, itemVars, dragVars,
                   keyVars, joyVars, pinchVars, editVars, sessions, clock, nextToken, held,
                   timerVars, syncStatus, fingers, localStorage, netVars, srvVars>>

\* the page is loaded, checkAuth (app.js 44-68) finds the session and makes
\* the application: the constructor, then init with loadFromServer
\* (app.js 1477-1503): ok = the fetch succeeded and the response was OK;
\* otherwise loadFromLocalStorage (1505-1519)
Open(ok) ==
    /\ page = "closed"
    /\ requireAuth(checkRequest)
    /\ page' = "open"
    /\ StepArg("open", ok)
    /\ Constructed
    /\ IF ok /\ requireAuth(loadRequest)
       THEN /\ sessions' = refreshed(loadRequest)
            /\ items' = boardResponse.items
            /\ todos' = boardResponse.todos
            /\ viewport_x' = OrElse(boardResponse.board.viewport.x, constructedX)
            /\ viewport_y' = OrElse(boardResponse.board.viewport.y, constructedY)
            /\ zoom' = IF Truthy(boardResponse.board.zoom)
                       THEN boardResponse.board.zoom ELSE R(1)
            /\ syncStatus' = "ok"
       ELSE /\ syncStatus' = "error"
            /\ sessions' = sessions
            /\ IF localStorage # <<>>
               THEN /\ items' = localStorage[1].items
                    /\ todos' = localStorage[1].todos
                    /\ viewport_x' = OrElse(localStorage[1].viewport_x, constructedX)
                    /\ viewport_y' = OrElse(localStorage[1].viewport_y, constructedY)
                    /\ zoom' = OrElse(localStorage[1].zoom, R(1))
               ELSE /\ items' = <<>>
                    /\ todos' = <<>>
                    /\ viewport_x' = constructedX
                    /\ viewport_y' = constructedY
                    /\ zoom' = R(1)
    /\ UNCHANGED <<innerWidth, innerHeight, nextId, timers, nextTimer, navFrames,
                   joyFrames, fingers, held, localStorage, netVars, authToken, clock,
                   nextToken, srvVars>>

(***************************************************************************)
(* Initial state: the page just opened on a board                          *)
(***************************************************************************)
\* the items a board may hold when the page is opened: none, or a text item
\* and an image item created in an earlier session
StoredItems ==
    {<<>>,
     <<[id |-> 1, type |-> "text", x |-> R(100), y |-> R(100), width |-> Undef,
        height |-> Undef, content |-> <<"G", "o", "a", "l">>, style |-> "default", z_index |-> 0],
       [id |-> 2, type |-> "image", x |-> R(300), y |-> R(300), width |-> R(200),
        height |-> R(100), content |-> <<"d", "a", "t", "a">>, style |-> "none", z_index |-> 1]>>}

\* the viewport the board row may hold when the page is opened: the defaults
\* of a new row (server.js 59-61), or a viewport an earlier session stored
StoredViewports ==
    {[viewport_x |-> R(0), viewport_y |-> R(0), zoom |-> R(1)],
     [viewport_x |-> R(4000), viewport_y |-> R(3600), zoom |-> R(2)],
     [viewport_x |-> R(100), viewport_y |-> R(0), zoom |-> <<1, 4>>]}

\* the page with the stored items is, the stored viewport v and the client
\* viewport (x, y, z)
InitWith(is, v, x, y, z) ==
    /\ \E w \in WindowSizes : innerWidth = w[1] /\ innerHeight = w[2]
    /\ page = "open"
    /\ srvItems = syncItemRows(is, "default")
    /\ items = Rows(srvItems, itemOfRow)
    /\ todos = <<>>
    /\ srvTodos = <<>>
    /\ orphans = <<>>
    /\ nextId = 3
    /\ boards = [b \in {"default"} |-> v]
    /\ viewport_x = x
    /\ viewport_y = y
    /\ zoom = z
    /\ isPanning = FALSE
    /\ isSpacePressed = FALSE
    /\ panStart = <<0, 0>>
    /\ selectedItem = NoItem
    /\ draggedItem = NoItem
    /\ dragOffset = <<R(0), R(0)>>
    /\ resizingItem = NoItem
    /\ resizeStart = [x |-> 0, y |-> 0, width |-> R(0), height |-> R(0)]
    /\ editingItemId = NoItem
    /\ contextMenuPosition = <<R(0), R(0)>>
    /\ pendingTextPosition = NoPos
    /\ pendingImagePosition = NoPos
    /\ textEditorState = "default"
    /\ keysPressed = {}
    /\ isNavigating = FALSE
    /\ isShiftPressed = FALSE
    /\ joystickState = [active |-> FALSE, currentX |-> R(0), currentY |-> R(0),
                        mouseDown |-> FALSE, touchId |-> NoItem]
    /\ joystickNavigating = FALSE
    /\ pinchStart = 0
    /\ pinchZoomStart = Undef
    /\ syncTimeout = NoItem
    /\ syncStatus = "ok"
    /\ timers = {}
    /\ nextTimer = 1
    /\ navFrames = 0
    /\ joyFrames = 0
    /\ fingers = <<>>
    /\ held = {}
    /\ localStorage = <<>>
    /\ net = {}
    /\ nextMsg = 1
    /\ authToken = 1
    /\ sessions = [t \in {1} |-> sessionLifetime]
    /\ clock = 0
    /\ nextToken = 2
    /\ steps = 0
    /\ last = Ev("init", R(0), R(0))

\* the page with the stored viewport v and the client viewport (x, y, z)
InitAt(v, x, y, z) ==
    \E is \in StoredItems : InitWith(is, v, x, y, z)

\* the page after init (app.js 153-165): the constructor's state with the
\* items and the viewport loadFromServer (1477-1503) takes from the response
InitPage ==
    \E v \in StoredViewports :
        InitAt(v, OrElse(v.viewport_x, constructedX), OrElse(v.viewport_y, constructedY),
               IF Truthy(v.zoom) THEN v.zoom ELSE R(1))

(***************************************************************************)
(* Specifications                                                          *)
(***************************************************************************)
ItemIds ==
    {items[i].id : i \in DOMAIN items}

\* the viewport controller and the sync client
PanStart ==
    \E pt \in Points : onViewportMouseDown(1, pt[1], pt[2])

MouseMove ==
    \E pt \in Points : onViewportMouseMove(pt[1], pt[2])

MouseRelease ==
    \E kind \in {"mouseup", "mouseleave"} : MouseUp(kind)

Wheel ==
    \E pt \in Points, deltaY \in {-100, 100} : onWheel(pt[1], pt[2], deltaY)

MinimapClick ==
    \E pt \in MinimapPoints : onMinimapClick(pt[1], pt[2])

CanvasTouchStart ==
    \E pt \in TouchPoints : TouchStart("canvas", pt[1], pt[2])

FingerMove ==
    \E i \in DOMAIN fingers, pt \in TouchPoints : TouchMove(i, pt[1], pt[2])

FingerLift ==
    \E i \in DOMAIN fingers : TouchEnd(i)

SyncTimer ==
    \E t \in timers : TimerFire(t)

Delivery ==
    \E m \in net : Deliver(m)

Failure ==
    \E m \in net : Drop(m)

PageOpen ==
    \E ok \in BOOLEAN : Open(ok)

\* the gesture router
MouseDown ==
    \E pt \in Points, button \in {0, 1} : onViewportMouseDown(button, pt[1], pt[2])

ItemMouseDown ==
    \E id \in ItemIds, part \in {"body", "resize"}, pt \in Points :
        onItemMouseDown(id, part, pt[1], pt[2])

ItemClick ==
    \E id \in ItemIds : onItemClick(id)

DeleteClick ==
    \E id \in ItemIds : onDeleteClick(id)

RightClick ==
    \E target \in {"canvas", "item"}, pt \in Points : onCanvasRightClick(target, pt[1], pt[2])

RouterKeyDown ==
    \E key \in {"Space", "Delete", "Escape"} : onKeyDown(key)

KeyUp ==
    \E key \in held : onKeyUp(key)

AnyTouchStart ==
    \E pt \in TouchPoints, target \in {"canvas", "item"} : TouchStart(target, pt[1], pt[2])

\* the navigation loops
NavKeyDown ==
    \E key \in {"w", "ArrowUp", "d", "Shift"} : onKeyDown(key)

StickTouchStart ==
    \E pt \in TouchPoints : TouchStart("stick", pt[1], pt[2])

StickMouseMove ==
    \E pt \in TouchPoints : onJoystickMouseMove(pt[1], pt[2])

\* every event
KeyDown ==
    \E key \in Keys : onKeyDown(key)

TouchDown ==
    \E pt \in TouchPoints, target \in {"canvas", "item", "stick"} :
        TouchStart(target, pt[1], pt[2])

Init ==
    InitPage /\ budget = MaxSteps

Next ==
    \/ MouseDown \/ ItemMouseDown \/ MouseMove \/ MouseRelease \/ ItemClick \/ DeleteClick
    \/ Wheel \/ zoomIn \/ zoomOut \/ onResetClick \/ MinimapClick
    \/ TouchDown \/ FingerMove \/ FingerLift
    \/ KeyDown \/ KeyUp \/ NavigationFrame
    \/ onJoystickMouseStart \/ StickMouseMove \/ JoystickMouseUp \/ JoystickFrame
    \/ SyncTimer \/ Delivery \/ Failure \/ Unload \/ PageOpen

Spec ==
    Init /\ [][Next]_vars

\* the viewport controller is explored on a board without items
InitView ==
    /\ InitPage
    /\ items = <<>>
    /\ budget = MaxViewSteps

NextView ==
    \/ PanStart \/ MouseMove \/ MouseRelease
    \/ Wheel \/ zoomIn \/ zoomOut \/ onResetClick \/ MinimapClick
    \/ CanvasTouchStart \/ FingerMove \/ FingerLift
    \/ SyncTimer \/ Delivery \/ Failure \/ Unload \/ PageOpen

SpecView ==
    InitView /\ [][NextView]_vars

\* the gesture router is explored in the small window, on a board that holds
\* items and has the viewport of a new row
InitRouter ==
    /\ InitPage
    /\ innerWidth = 800
    /\ items # <<>>
    /\ zoom = R(1)
    /\ budget = MaxRouterSteps

NextRouter ==
    \/ MouseDown \/ ItemMouseDown \/ MouseMove \/ MouseRelease \/ ItemClick \/ DeleteClick
    \/ RightClick
    \/ RouterKeyDown \/ KeyUp
    \/ AnyTouchStart \/ FingerMove \/ FingerLift

SpecRouter ==
    InitRouter /\ [][NextRouter]_vars

\* the navigation loops are explored on a board without items
InitNav ==
    /\ InitPage
    /\ items = <<>>
    /\ budget = MaxNavSteps

NextNav ==
    \/ NavKeyDown \/ KeyUp \/ NavigationFrame
    \/ onJoystickMouseStart \/ StickMouseMove \/ JoystickMouseUp \/ JoystickFrame
    \/ StickTouchStart \/ CanvasTouchStart \/ FingerMove \/ FingerLift

SpecNav ==
    InitNav /\ [][NextNav]_vars

\* the item lifecycle
CanvasClick ==
    \E pt \in Points : onCanvasClick(pt[1], pt[2])

ContextMenuAction ==
    \E action \in {"text", "image"} : onContextMenuAction(action)

EditText ==
    \E id \in ItemIds : editTextItem(id)

SaveText ==
    \E raw \in Texts : saveTextItem(raw)

\* an image from the file input (no position), or dropped at a point
AddImage ==
    \E sz \in ImageSizes, pos \in {NoPos, <<R(0), R(250)>>} :
        addImageItem(sz[1], sz[2], pos[1], pos[2])

ItemsKeyDown ==
    \E key \in {"Delete", "Escape"} : onKeyDown(key)

TodoIds ==
    {todos[i].id : i \in DOMAIN todos}

SaveTodo ==
    \E raw \in Texts, priority \in {"medium", "high"} : saveTodoItem(raw, priority)

ToggleTodo ==
    \E id \in TodoIds : toggleTodo(id)

DeleteTodo ==
    \E id \in TodoIds : deleteTodo(id)

\* the item left on a board where an earlier session created three items and
\* deleted the first two
SurvivorItems ==
    <<[id |-> 2, type |-> "image", x |-> R(500), y |-> R(500), width |-> R(400),
       height |-> R(200), content |-> <<"d", "a", "t", "a">>, style |-> "none",
       z_index |-> 2]>>

\* the item lifecycle is explored in the small window, at the viewport of a
\* new board row
InitItems ==
    /\ \E is \in StoredItems \cup {SurvivorItems} :
           InitWith(is, [viewport_x |-> R(0), viewport_y |-> R(0), zoom |-> R(1)],
                    constructedX, constructedY, R(1))
    /\ innerWidth = 800
    /\ budget = MaxItemSteps

NextItems ==
    \/ CanvasClick \/ ContextMenuAction \/ openTextEditorAtCenter \/ EditText
    \/ onStyleClick \/ onCancelText \/ SaveText \/ AddImage
    \/ ItemClick \/ DeleteClick \/ ItemsKeyDown
    \/ SaveTodo \/ ToggleTodo \/ DeleteTodo
    \/ zoomIn \/ onResetClick

SpecItems ==
    InitItems /\ [][NextItems]_vars

\* the images: creation, resize, and the way through the cache and the store
ResizeMouseDown ==
    \E id \in ItemIds, pt \in Points : onItemMouseDown(id, "resize", pt[1], pt[2])

\* an image from the file input
AddFileImage ==
    \E sz \in ImageSizes : addImageItem(sz[1], sz[2], Undef, Undef)

InitImage ==
    /\ \E is \in StoredItems :
           InitWith(is, [viewport_x |-> R(0), viewport_y |-> R(0), zoom |-> R(1)],
                    constructedX, constructedY, R(1))
    /\ innerWidth = 800
    /\ budget = MaxImageSteps

NextImage ==
    \/ AddFileImage \/ ResizeMouseDown \/ MouseMove \/ MouseRelease
    \/ Unload \/ PageOpen \/ Delivery

SpecImage ==
    InitImage /\ [][NextImage]_vars

\* the writes, the store and the load
AddOneImage ==
    addImageItem(800, 400, Undef, Undef)

SaveOneTodo ==
    saveTodoItem(<<"b">>, "high")

InitSync ==
    /\ \E is \in StoredItems :
           InitWith(is, [viewport_x |-> R(0), viewport_y |-> R(0), zoom |-> R(1)],
                    constructedX, constructedY, R(1))
    /\ innerWidth = 800
    /\ budget = MaxSyncSteps

NextSync ==
    \/ AddOneImage \/ DeleteClick \/ SaveOneTodo \/ ToggleTodo \/ DeleteTodo
    \/ zoomIn \/ SyncTimer \/ Unload \/ PageOpen \/ Delivery \/ Failure

SpecSync ==
    InitSync /\ [][NextSync]_vars

\* the selection under select, drag, create, delete and Escape
InitSelect ==
    /\ \E is \in StoredItems :
           InitWith(is, newBoard, constructedX, constructedY, R(1))
    /\ innerWidth = 800
    /\ budget = MaxSelectSteps

NextSelect ==
    \/ ItemClick \/ ItemMouseDown \/ MouseMove \/ MouseRelease
    \/ DeleteClick \/ ItemsKeyDown
    \/ openTextEditorAtCenter \/ SaveText \/ AddOneImage

SpecSelect ==
    InitSelect /\ [][NextSelect]_vars

\* the requests of one item on their way: the page creates, moves and deletes
\* items, no request is lost, and the server handles them in any order
InitOrder ==
    /\ \E is \in StoredItems :
           InitWith(is, [viewport_x |-> R(0), viewport_y |-> R(0), zoom |-> R(1)],
                    constructedX, constructedY, R(1))
    /\ innerWidth = 800
    /\ budget = MaxOrderSteps

NextOrder ==
    \/ AddOneImage \/ DeleteClick \/ Delivery
    \/ ItemMouseDown \/ MouseMove \/ MouseRelease

SpecOrder ==
    InitOrder /\ [][NextOrder]_vars

\* the store under the requests of a client that is logged in
Req(kind, id, board, body, header, query) ==
    [kind |-> kind, id |-> id, board |-> board, body |-> body,
     token |-> header, query |-> query]

\* the boards asked for: the board of the page, and one that has no row yet
BoardIds ==
    {"default", "other"}

\* the item ids of requests: of a stored item, and of none
RequestIds ==
    {1, 9}

\* bodies of PUT /api/items/:id: single fields, several fields, and fields
\* the route does not read
PutBodies ==
    {[x |-> R(10)],
     [y |-> R(20), content |-> <<"N">>],
     [style |-> "bold", z_index |-> 5],
     [width |-> R(50), height |-> R(60)],
     [x |-> R(10), type |-> "image", board_id |-> "other"]}

\* bodies of POST /api/items
PostBodies ==
    {[id |-> i, type |-> "text", x |-> R(100), y |-> R(100),
      content |-> <<"G", "o", "a", "l">>, style |-> "default", z_index |-> 0] :
        i \in RequestIds}

\* bodies of PUT /api/todos/:id
TodoBodies ==
    {[completed |-> TRUE], [text |-> <<"c">>, priority |-> "low"]}

GetBoard ==
    \E b \in BoardIds :
        /\ steps < budget
        /\ Serve(Req("GET /board", NoItem, b, [none |-> TRUE], 1, NoToken))

PutViewport ==
    \E b \in BoardIds :
        /\ steps < budget
        /\ Serve(Req("PUT /viewport", NoItem, b, viewportBody(R(40), R(0), R(2)), 1, NoToken))

PostItem ==
    \E b \in BoardIds, body \in PostBodies :
        /\ steps < budget
        /\ Serve(Req("POST /items", body.id, b, body, 1, NoToken))

PutItem ==
    \E id \in RequestIds, body \in PutBodies :
        /\ steps < budget
        /\ Serve(Req("PUT /items", id, "default", body, 1, NoToken))

DeleteItemRow ==
    \E id \in RequestIds :
        /\ steps < budget
        /\ Serve(Req("DELETE /items", id, "default", [none |-> TRUE], 1, NoToken))

PostTodo ==
    /\ steps < budget
    /\ Serve(Req("POST /todos", 4, "default",
              [id |-> 4, text |-> <<"b">>, priority |-> "high"], 1, NoToken))

PutTodo ==
    \E id \in {4, 9}, body \in TodoBodies :
        /\ steps < budget
        /\ Serve(Req("PUT /todos", id, "default", body, 1, NoToken))

DeleteTodoRow ==
    \E id \in {4, 9} :
        /\ steps < budget
        /\ Serve(Req("DELETE /todos", id, "default", [none |-> TRUE], 1, NoToken))

\* the text item and the image item of StoredItems
SeededItems ==
    CHOOSE is \in StoredItems : is # <<>>

\* bodies of POST /api/sync: the stored items with a todo, the same with an
\* item sent twice, and with a todo sent twice
SyncBodies ==
    LET body(is, ts) == [items |-> is, todos |-> ts,
                         viewport |-> viewportBody(R(40), R(0), R(2))]
        todo == [id |-> 4, text |-> <<"b">>, completed |-> FALSE, priority |-> "high",
                 created_at |-> 1]
    IN  {body(SeededItems, <<todo>>),
         body(SeededItems \o SeededItems, <<todo>>),
         body(SeededItems, <<todo, todo>>)}

PostSync ==
    \E b \in BoardIds, body \in SyncBodies :
        /\ steps < budget
        /\ Serve(Req("POST /sync", NoItem, b, body, 1, NoToken))

InitStore ==
    /\ \E is \in StoredItems :
           InitWith(is, newBoard, constructedX, constructedY, R(1))
    /\ innerWidth = 800
    /\ budget = MaxStoreSteps

NextStore ==
    \/ GetBoard \/ PutViewport \/ PostItem \/ PutItem \/ DeleteItemRow
    \/ PostTodo \/ PutTodo \/ DeleteTodoRow \/ PostSync

SpecStore ==
    InitStore /\ [][NextStore]_vars

\* the sessions: logins, logouts, checks, requests to the protected routes
\* with and without tokens, and the passing of time
\* the tokens a request may present: none, one that was never issued, and
\* those issued so far
Presented ==
    {NoToken, -1} \cup (1 .. nextToken - 1)

\* (header, query) of a request: a token in one of them, in none, or a token
\* in the query behind one that was never issued in the header
Credentials ==
    {<<h, NoToken>> : h \in Presented}
        \cup {<<NoToken, q>> : q \in Presented \ {NoToken}}
        \cup {<<-1, 1>>}

\* one request to each protected route
ProtectedRequests(h, q) ==
    {Req("GET /board", NoItem, "other", [none |-> TRUE], h, q),
     Req("PUT /viewport", NoItem, "default", viewportBody(R(40), R(0), R(2)), h, q),
     Req("POST /items", 9, "default",
         [id |-> 9, type |-> "text", x |-> R(100), y |-> R(100)], h, q),
     Req("PUT /items", 1, "default", [x |-> R(10)], h, q),
     Req("DELETE /items", 1, "default", [none |-> TRUE], h, q),
     Req("POST /todos", 4, "default", [id |-> 4, text |-> <<"b">>], h, q),
     Req("PUT /todos", 4, "default", [completed |-> TRUE], h, q),
     Req("DELETE /todos", 4, "default", [none |-> TRUE], h, q),
     Req("POST /sync", NoItem, "default", [items |-> <<>>, todos |-> <<>>], h, q)}

Protected ==
    \E c \in Credentials : \E m \in ProtectedRequests(c[1], c[2]) :
        /\ steps < budget
        /\ Serve(m)

Login ==
    \E pw \in {AUTH_PASSWORD, "guess"} : login(pw)

AuthCheck ==
    \E c \in Credentials :
        /\ steps < budget
        /\ authCheck(Req("GET /auth/check", NoItem, "default", [none |-> TRUE], c[1], c[2]))

Logout ==
    \E c \in Credentials :
        /\ steps < budget
        /\ logout(Req("POST /auth/logout", NoItem, "default", [none |-> TRUE], c[1], c[2]))

\* periods that pass: half an hour, the lifetime of a session, and more
Durations ==
    {1, sessionLifetime, sessionLifetime + sweepInterval}

TimePasses ==
    \E d \in Durations : Pass(d)

InitSession ==
    /\ InitWith(SeededItems, newBoard, constructedX, constructedY, R(1))
    /\ innerWidth = 800
    /\ budget = MaxSessionSteps

NextSession ==
    Login \/ AuthCheck \/ Logout \/ Protected \/ TimePasses

SpecSession ==
    InitSession /\ [][NextSession]_vars

\* the page while its session expires or is ended by a logout elsewhere
PageLoadRejected ==
    \E reach \in BOOLEAN : checkAuth(reach)

LogoutElsewhere ==
    /\ steps < budget
    /\ logout(Req("POST /auth/logout", NoItem, "default", [none |-> TRUE], authToken, NoToken))

InitAuth ==
    /\ InitWith(SeededItems, newBoard, constructedX, constructedY, R(1))
    /\ innerWidth = 800
    /\ budget = MaxAuthSteps

NextAuth ==
    \/ SaveOneTodo \/ zoomIn \/ SyncTimer \/ Delivery \/ Unload \/ PageOpen
    \/ PageLoadRejected \/ LogoutElsewhere \/ TimePasses

SpecAuth ==
    InitAuth /\ [][NextAuth]_vars

\* clampViewport as a function: the origins it is applied to, below, inside
\* and beyond the canvas, and the zooms, at the limits and between them
ClampOrigins ==
    {R(-100), R(0), R(100), Rat(4321, 2), R(4999), R(6000)}

ClampZooms ==
    {minZoom, Rat(9, 10), R(1), Rat(6, 5), maxZoom}

\* clampViewport (app.js 677-684)
clampViewport ==
    /\ Handled("clampViewport", R(0), R(0))
    /\ viewport_x' = clampX(viewport_x, zoom)
    /\ viewport_y' = clampY(viewport_y, zoom)
    /\ UNCHANGED <<envVars, zoom, panVars, itemVars, dragVars, keyVars, joyVars, pinchVars,
                   editVars, authVars, held, timerVars,
                   syncStatus, fingers, localStorage, netVars, srvVars>>

\* a handler has assigned the origin and is about to call clampViewport
InitClamp ==
    /\ \E x \in ClampOrigins, y \in ClampOrigins, z \in ClampZooms :
           InitAt([viewport_x |-> R(0), viewport_y |-> R(0), zoom |-> R(1)], x, y, z)
    /\ items = <<>>
    /\ budget = MaxSteps

NextClamp ==
    clampViewport

SpecClamp ==
    InitClamp /\ [][NextClamp]_vars

(***************************************************************************)
(* Properties of the viewport controller                                   *)
(***************************************************************************)
\* the range clampViewport keeps the origin in (app.js 677-684):
\* 0 <= x <= canvasSize - rect.width / zoom, pinned to 0 when that is negative
maxOriginX(z) ==
    RMax(R(0), RSub(R(canvasSize), RDiv(R(rectWidth), z)))

maxOriginY(z) ==
    RMax(R(0), RSub(R(canvasSize), RDiv(R(rectHeight), z)))

InBounds(x, y, z) ==
    /\ RLeq(R(0), x) /\ RLeq(x, maxOriginX(z))
    /\ RLeq(R(0), y) /\ RLeq(y, maxOriginY(z))

\* the events that pan, zoom or reset the viewport
ViewportOps ==
    {"mousemove", "touchmove", "wheel", "zoomIn", "zoomOut", "minimap", "resetView"}

\* the events that zoom about a point
ZoomOps ==
    {"wheel", "zoomIn", "zoomOut"}

\* C1: a pan, wheel zoom, zoomIn/zoomOut, pinch zoom, minimap click or
\* resetView that starts with the origin within
\* [0, max(0, canvasSize - viewportExtent/zoom)] on both axes ends with the
\* origin within that range, so that the range holds after any sequence of them
C1_OriginStaysInBounds ==
    (last.op \in ViewportOps /\ InBounds(last.x, last.y, last.z))
        => InBounds(viewport_x, viewport_y, zoom)

\* C2: in every reachable client state zoom is within [minZoom, maxZoom],
\* and so is every zoom the client has written to the store and the cache
C2_ZoomWithinLimits ==
    /\ RLeq(minZoom, zoom) /\ RLeq(zoom, maxZoom)
    /\ \A b \in DOMAIN boards :
           RLeq(minZoom, boards[b].zoom) /\ RLeq(boards[b].zoom, maxZoom)
    /\ localStorage # <<>> =>
           RLeq(minZoom, localStorage[1].zoom) /\ RLeq(localStorage[1].zoom, maxZoom)

\* a pinch that asked for more than maxZoom and was limited to it
C2_Witness ==
    /\ last.op = "touchmove"
    /\ last.z # maxZoom
    /\ zoom = maxZoom
    /\ RLt(maxZoom, RMul(pinchZoomStart, Rat(getPinchDistance(fingers), pinchStart)))

\* the canvas point under the anchor of the last zoom event is the one it was
\* before the event, on the x axis and on the y axis
AnchorFixedX ==
    toCanvas(viewport_x, last.ax, zoom) = toCanvas(last.x, last.ax, last.z)

AnchorFixedY ==
    toCanvas(viewport_y, last.ay, zoom) = toCanvas(last.y, last.ay, last.z)

\* C3 as stated: after a wheel zoom, zoomIn or zoomOut the canvas point under
\* the anchor screen pixel is the canvas point it was before the zoom
C3_AnchorFixed ==
    last.op \in ZoomOps => (AnchorFixedX /\ AnchorFixedY)

\* C3 amended: after a wheel zoom, zoomIn or zoomOut, on each axis where the
\* new origin lies strictly inside the range of clampViewport, the canvas
\* point under the anchor screen pixel is the canvas point it was before the
\* zoom
C3_AnchorFixedUnlessClamped ==
    last.op \in ZoomOps =>
        /\ (RLt(R(0), viewport_x) /\ RLt(viewport_x, maxOriginX(zoom))) => AnchorFixedX
        /\ (RLt(R(0), viewport_y) /\ RLt(viewport_y, maxOriginY(zoom))) => AnchorFixedY

\* a wheel zoom away from the corner of the viewport that changed the zoom and
\* the origin and was not clamped on either axis
C3_Witness ==
    /\ last.op = "wheel"
    /\ zoom # last.z
    /\ last.ax # R(0) /\ last.ay # R(0)
    /\ viewport_x # last.x /\ viewport_y # last.y
    /\ RLt(R(0), viewport_x) /\ RLt(viewport_x, maxOriginX(zoom))
    /\ RLt(R(0), viewport_y) /\ RLt(viewport_y, maxOriginY(zoom))

\* C4: clampViewport applied to the origin it has just produced leaves it
\* unchanged, for every origin, zoom and window size it is applied to
C4_ClampIdempotent ==
    last.op = "clampViewport" =>
        /\ clampX(viewport_x, zoom) = viewport_x
        /\ clampY(viewport_y, zoom) = viewport_y

\* clampViewport moved the origin on both axes
C4_Witness ==
    /\ last.op = "clampViewport"
    /\ viewport_x # last.x
    /\ viewport_y # last.y

\* C5: a wheel zoom, zoomIn or zoomOut whose limited zoom equals the current
\* zoom leaves zoom and origin unchanged and schedules no viewport persistence
C5_UnchangedZoomIsNoOp ==
    (last.op \in ZoomOps /\ zoom = last.z) =>
        /\ viewport_x = last.x
        /\ viewport_y = last.y
        /\ timers = last.pending
        /\ nextTimer = last.issued

\* C6: after resetView zoom is exactly 1 and the origin is
\* canvasSize/2 - visibleExtent/2 on both axes, the visible extent at zoom 1
\* being the size of the viewport element
C6_ResetViewCentres ==
    last.op = "resetView" =>
        /\ zoom = R(1)
        /\ viewport_x = RSub(Rat(canvasSize, 2), Rat(rectWidth, 2))
        /\ viewport_y = RSub(Rat(canvasSize, 2), Rat(rectHeight, 2))

\* resetView from a state that was zoomed and not centred
C6_Witness ==
    /\ last.op = "resetView"
    /\ last.z # R(1)
    /\ last.x # viewport_x
    /\ last.y # viewport_y
    /\ zoom = R(1)

(***************************************************************************)
(* Properties of the sync client                                           *)
(***************************************************************************)
\* C7: at most one viewport-sync timer is pending, it is the one the last
\* scheduling request set, and when it fires exactly one PUT
\* /board/:id/viewport leaves, carrying the origin and zoom of that moment, and
\* no timer stays pending
C7_DebounceSingleSlot ==
    /\ Cardinality(timers) <= 1
    /\ timers \subseteq {syncTimeout}
    /\ last.op = "timer" =>
           /\ timers = {}
           /\ nextMsg = last.sent + 1
           /\ \E m \in net :
                  /\ m.seq = last.sent
                  /\ m.kind = "PUT /viewport"
                  /\ m.body = viewportBody(viewport_x, viewport_y, zoom)

\* the timer fired after a burst of two scheduling requests that left
\* different viewports, and one PUT with the final one is in flight
C7_Witness ==
    /\ last.op = "timer"
    /\ last.issued = 3
    /\ nextMsg = 2
    /\ \E m \in net : m.kind = "PUT /viewport" /\ m.body.zoom = zoom /\ zoom # R(1)

(***************************************************************************)
(* Properties of the gesture router                                        *)
(***************************************************************************)
\* C8: at most one of panning, dragging an item and resizing an item is active
C8_OneInteraction ==
    /\ ~(isPanning /\ draggedItem # NoItem)
    /\ ~(isPanning /\ resizingItem # NoItem)
    /\ ~(draggedItem # NoItem /\ resizingItem # NoItem)

\* a viewport-sync timer was scheduled by the last event
SyncScheduled ==
    /\ nextTimer = last.issued + 1
    /\ syncTimeout = last.issued
    /\ timers = {syncTimeout}

\* an update of item id was issued by the last event
UpdateIssued(id) ==
    \E m \in net : m.seq >= last.sent /\ m.kind = "PUT /items" /\ m.id = id

C10_SingleLoop ==
    /\ navFrames <= 1
    /\ joyFrames <= 1
    /\ (last.op = "keydown" /\ last.nav) => navFrames = last.navFrames
    /\ (last.op \in {"touchstart", "joydown"} /\ last.joy) => joyFrames = last.joyFrames

\* C11: when keyboard navigation ends (the last held navigation key is
\* released) or the joystick is released, the debounced persistence of the
\* viewport is scheduled
C11_NavigationEndPersists ==
    /\ (last.op = "keyup" /\ last.nav /\ ~isNavigating) => SyncScheduled
    /\ (last.op \in {"touchend", "joyup", "mouseup", "mouseleave"}
            /\ last.joy /\ ~joystickNavigating) => SyncScheduled

(***************************************************************************)
(* Properties of the item lifecycle                                        *)
(***************************************************************************)
\* C12: the selection is cleared (selectedItem is null) by a click on the
\* canvas background, by the Escape key and by the deletion of the selected
\* item
C12_SelectionCleared ==
    /\ last.op = "canvasclick" => selectedItem = NoItem
    /\ (last.op = "keydown" /\ last.arg = "Escape") => selectedItem = NoItem
    /\ (last.op = "keydown" /\ last.arg = "Delete" /\ last.sel # NoItem) =>
           selectedItem = NoItem
    /\ (last.op = "deleteclick" /\ last.arg = last.sel) => selectedItem = NoItem

\* the last event deleted the item that the event before it had created
DeletedRightAfterCreation ==
    /\ last.op = "deleteclick"
    /\ last.prevOp \in {"savetext", "addimage"}
    /\ last.fresh = last.prevFresh + 1
    /\ last.arg = last.prevFresh

\* C13: creating an item and immediately deleting it leaves the item list
\* equal, in length, content and order, to the list before the creation
C13_CreateThenDeleteRestores ==
    DeletedRightAfterCreation => items = last.prevItems

\* an item was created on a board that held items, and deleted at once
C13_Witness ==
    /\ DeletedRightAfterCreation
    /\ Len(last.prevItems) = 2
    /\ Len(last.items) = 3
    /\ items = last.prevItems

\* the last event appended a new item to the list
ItemCreated ==
    /\ last.op \in {"savetext", "addimage"}
    /\ nextId = last.fresh + 1
    /\ Len(items) = Len(last.items) + 1

\* C14: a newly created item gets z_index = the number of items in the list
\* and paints on top: its z_index is at least the z_index of every item that
\* was already in the list
C14_NewItemOnTop ==
    ItemCreated =>
        /\ items[Len(items)].z_index = Len(last.items)
        /\ \A i \in DOMAIN last.items :
               items[Len(items)].z_index >= last.items[i].z_index

\* the last event saved the text editor with a text that is empty or holds
\* whitespace only
EmptyTextSaved ==
    /\ last.op = "savetext"
    /\ \A i \in DOMAIN last.arg : last.arg[i] \in Whitespace

\* C15: saving the text editor with an empty trimmed text is a no-op cancel,
\* when creating and when editing: the item list, with every content and
\* style, is unchanged, the edited item is not deleted, no request is issued,
\* and the editor is closed
C15_EmptySaveIsCancel ==
    EmptyTextSaved =>
        /\ items = last.items
        /\ Has(last.items, last.editing) => Has(items, last.editing)
        /\ nextMsg = last.sent
        /\ localStorage = last.cache
        /\ ~TextEditorShown

\* a text item was opened for editing, its style changed in the editor, and
\* the editor saved with a blank text
C15_Witness ==
    /\ EmptyTextSaved
    /\ last.arg # <<>>
    /\ last.editing # NoItem
    /\ Has(items, last.editing)
    /\ textEditorState # Obj(last.editing).style
    /\ ~TextEditorShown

\* the image item the last event created
NewImage ==
    items[Len(items)]

\* the stored width and height of item id in the list seq, <<>> if absent
SizeIn(seq, id) ==
    IF Has(seq, id) THEN <<seq[IndexOf(seq, id)].width, seq[IndexOf(seq, id)].height>>
    ELSE <<>>

\* C16: for an image of w x h pixels, the item stored at creation has both
\* dimensions <= 400; they are w and h when both are <= 400, otherwise both
\* are scaled by min(400/w, 400/h), so that width * h = height * w; and no
\* later operation normalises again: but for a resize (doResize), every
\* event leaves the size of every item as it was, and a load takes the sizes
\* as the store or the cache holds them
C16_ImageNormalisedOnce ==
    /\ last.op = "addimage" =>
           LET w == last.arg[1]
               h == last.arg[2]
               f == RMin(Rat(400, w), Rat(400, h))
           IN  /\ RLeq(NewImage.width, R(400)) /\ RLeq(NewImage.height, R(400))
               /\ (w <= 400 /\ h <= 400) =>
                      NewImage.width = R(w) /\ NewImage.height = R(h)
               /\ (w > 400 \/ h > 400) =>
                      NewImage.width = RMul(R(w), f) /\ NewImage.height = RMul(R(h), f)
               /\ RMul(NewImage.width, R(h)) = RMul(NewImage.height, R(w))
    /\ last.op \notin {"mousemove", "open"} =>
           \A i \in DOMAIN items :
               Has(last.items, items[i].id) =>
                   SizeIn(items, items[i].id) = SizeIn(last.items, items[i].id)
    /\ (last.op = "open" /\ syncStatus = "ok") =>
           \A i \in DOMAIN items : SizeIn(items, items[i].id) = SizeIn(srvItems, items[i].id)
    /\ (last.op = "open" /\ syncStatus = "error") =>
           \A i \in DOMAIN items :
               /\ localStorage # <<>>
               /\ SizeIn(items, items[i].id) = SizeIn(localStorage[1].items, items[i].id)

\* an image of 800 x 400 is added, and stored as 400 x 200, on a board where
\* a resize had made an image wider than 400, which stays so
C16_Witness ==
    /\ last.op = "addimage"
    /\ last.arg = <<800, 400>>
    /\ NewImage.width = R(400) /\ NewImage.height = R(200)
    /\ \E i \in DOMAIN last.items :
           /\ last.items[i].type = "image"
           /\ RLt(R(400), last.items[i].width)
           /\ items[i] = last.items[i]

\* the local cache holds the in-memory items, todos, origin and zoom
CacheCurrent ==
    localStorage = cacheOf(items, todos, viewport_x, viewport_y, zoom)

\* the last event changed the items or the todos, ended a drag or a resize,
\* or changed the viewport by a pan, a zoom, a reset or a minimap click
LocalMutation ==
    \/ /\ last.op \in {"savetext", "addimage", "deleteclick", "keydown",
                       "savetodo", "toggletodo", "deletetodo"}
       /\ items # last.items \/ todos # last.todos
    \/ /\ last.op \in {"mouseup", "mouseleave"}
       /\ last.drag # NoItem \/ last.resize # NoItem \/ last.pan
    \/ /\ last.op \in {"wheel", "zoomIn", "zoomOut", "resetView", "minimap"}
       /\ <<viewport_x, viewport_y, zoom>> # <<last.x, last.y, last.z>>

\* C17: right after every local mutation (item create, edit, drag end,
\* resize end, delete; todo create, toggle, delete; viewport pan, zoom, reset,
\* minimap click) the cached items, todos, origin and zoom equal the
\* in-memory state
C17_CacheFollowsMutations ==
    LocalMutation => CacheCurrent

(***************************************************************************)
(* Properties of the writes, the store and the load                        *)
(***************************************************************************)
\* C18: a failed remote write is swallowed: the items, the todos, the
\* viewport and the local cache are what they were before the failure, the
\* sync status and the page are untouched, and no request or timer is issued
\* for a retry
C18_FailedWriteSwallowed ==
    last.op = "drop" =>
        /\ items = last.items /\ todos = last.todos
        /\ <<viewport_x, viewport_y, zoom>> = <<last.x, last.y, last.z>>
        /\ localStorage = last.cache
        /\ syncStatus = last.status
        /\ nextMsg = last.sent
        /\ \A m \in net : m.seq < last.sent
        /\ timers = last.pending /\ nextTimer = last.issued

\* the creation request of an item failed: the page is open, the item is in
\* the list and in the cache, and the store has no row of it
C18_Witness ==
    /\ last.op = "drop"
    /\ last.arg.kind = "POST /items"
    /\ page = "open"
    /\ Has(items, last.arg.id)
    /\ CacheCurrent
    /\ ~Has(srvItems, last.arg.id)

\* C19: on load, when the fetch of the board snapshot fails the items, the
\* todos and the viewport are those of the local cache and the sync status is
\* error; when it succeeds the status is ok and the items, the todos, the
\* origin and the zoom are those of the server snapshot
C19_LoadFromServerOrCache ==
    last.op = "open" =>
        IF last.arg /\ authToken \in DOMAIN last.sessions
        THEN /\ syncStatus = "ok"
             /\ items = boardResponse.items
             /\ todos = boardResponse.todos
             /\ viewport_x = boardResponse.board.viewport.x
             /\ viewport_y = boardResponse.board.viewport.y
             /\ zoom = boardResponse.board.zoom
        ELSE /\ syncStatus = "error"
             /\ localStorage # <<>> =>
                    /\ items = localStorage[1].items
                    /\ todos = localStorage[1].todos
                    /\ viewport_x = localStorage[1].viewport_x
                    /\ viewport_y = localStorage[1].viewport_y
                    /\ zoom = localStorage[1].zoom

\* the last event applied a full sync in the store
SyncApplied ==
    /\ last.op = "deliver"
    /\ last.arg.kind = "POST /sync"
    /\ last.arg.token \in DOMAIN last.sessions

\* the element of seq with this id
Of(seq, id) ==
    seq[IndexOf(seq, id)]

\* the lists hold the same elements, id for id and, for every field that was
\* sent, field for field (the response adds the board_id column)
SameById(got, sent) ==
    /\ Len(got) = Len(sent)
    /\ \A i \in DOMAIN sent :
           /\ Has(got, sent[i].id)
           /\ \A f \in DOMAIN sent[i] : Of(got, sent[i].id)[f] = sent[i][f]

\* C20: after a full sync is applied, whatever rows the store held before, a
\* GET of the board returns the items and the todos that were sent, field for
\* field, completed as a boolean
C20_SyncReplacesAndRoundTrips ==
    SyncApplied =>
        /\ SameById(boardResponse.items, last.arg.body.items)
        /\ SameById(boardResponse.todos, last.arg.body.todos)

\* a full sync with items is applied in a store that held a row of an item
\* that was not sent
C20_Witness ==
    /\ SyncApplied
    /\ last.arg.body.items # <<>>
    /\ \E i \in DOMAIN last.rows : ~Has(last.arg.body.items, last.rows[i].id)
    /\ SameById(boardResponse.items, last.arg.body.items)

\* the last request was a PUT /api/items/:id that was let in, for the id of a
\* row of the store
ItemUpdated ==
    /\ last.op = "serve"
    /\ last.arg.kind = "PUT /items"
    /\ last.code = 200
    /\ Has(last.rows, last.arg.id)

\* the columns of a row of items that the body of the request supplies
SuppliedColumns(body) ==
    {f \in {"x", "y", "width", "height", "content", "style", "z_index"} : f \in DOMAIN body}

\* C21: a PUT /items/:id changes, in the row with the id, only the columns
\* its body supplies, which take the supplied values; the other columns of
\* the row, type and board_id among them, every other row, the todos and the
\* boards stay as they were
C21_PartialUpdate ==
    ItemUpdated =>
        LET before == Of(last.rows, last.arg.id)
            after == Of(srvItems, last.arg.id)
            body == last.arg.body
        IN  /\ Len(srvItems) = Len(last.rows)
            /\ Has(srvItems, last.arg.id)
            /\ \A f \in DOMAIN before \ SuppliedColumns(body) : after[f] = before[f]
            /\ \A f \in SuppliedColumns(body) \ {"style"} : after[f] = body[f]
            /\ "style" \in DOMAIN body => parseStyle(after.style) = body.style
            /\ \A i \in DOMAIN last.rows :
                   last.rows[i].id # last.arg.id => srvItems[i] = last.rows[i]
            /\ srvTodos = last.todoRows
            /\ boards = last.boards

\* a PUT with the body {x: 10} moved a stored item that had a content, a
\* style and another x
C21_Witness ==
    /\ ItemUpdated
    /\ DOMAIN last.arg.body = {"x"}
    /\ Of(last.rows, last.arg.id).x # last.arg.body.x
    /\ Of(srvItems, last.arg.id).x = last.arg.body.x
    /\ Of(srvItems, last.arg.id).content # <<>>

\* the token the last request presented had a session whose expiry time
\* had passed
ExpiredPresented ==
    /\ last.op = "serve"
    /\ tokenOf(last.arg) \in DOMAIN last.sessions
    /\ last.sessions[tokenOf(last.arg)] < last.clock

\* C22: a request to a protected route that presents a token whose expiry
\* time has passed is answered 401 with needsAuth and is not served, whether
\* or not the sweep has run since the expiry
C22_ExpiredTokenRejected ==
    ExpiredPresented =>
        /\ last.code = 401
        /\ last.reply.needsAuth
        /\ srvItems = last.rows /\ srvTodos = last.todoRows /\ boards = last.boards

\* the last request, to a protected route, presented no token or a token
\* that no login had issued
NeverIssuedPresented ==
    /\ last.op = "serve"
    /\ tokenOf(last.arg) \notin 1 .. (nextToken - 1)

\* C23: a request to a protected route without a token, or with a token that
\* no login issued, is answered 401 with needsAuth and leaves the boards, the
\* items and the todos as they were; every token of the session map was
\* issued by a login, and a token enters the map only in a login with the
\* configured password
C23_UnauthenticatedRejected ==
    /\ NeverIssuedPresented =>
           /\ last.code = 401
           /\ last.reply.needsAuth
           /\ srvItems = last.rows /\ srvTodos = last.todoRows /\ boards = last.boards
           /\ sessions = last.sessions
    /\ DOMAIN sessions \subseteq 1 .. (nextToken - 1)
    /\ DOMAIN sessions \ DOMAIN last.sessions # {} =>
           /\ last.op = "login"
           /\ last.arg.password = AUTH_PASSWORD
           /\ DOMAIN sessions \ DOMAIN last.sessions = {last.reply.token}

\* a DELETE of a stored item with a token in the query that no login issued
\* was answered 401, and the row is still there
C23_Witness ==
    /\ NeverIssuedPresented
    /\ last.arg.kind = "DELETE /items"
    /\ last.arg.query = -1
    /\ last.code = 401
    /\ Has(srvItems, last.arg.id)

\* C24: once a logout is processed, the token it presented, in the header or
\* in the query, has no session: a later request with it is rejected by
\* requireAuth and the check reports authenticated = false
C24_LogoutInvalidates ==
    last.op = "logout" /\ tokenOf(last.arg) # NoToken =>
        /\ tokenOf(last.arg) \notin DOMAIN sessions
        /\ ~requireAuth(last.arg)

\* C25: when a request of the page is answered 401, the page clears its
\* cached token and shows the login screen
C25_UnauthorizedReturnsToLogin ==
    last.op = "deliver" /\ last.code = 401 =>
        /\ authToken = NoToken
        /\ page = "login"

\* the last request was a GET /api/board/:id that was let in
BoardRead ==
    /\ last.op = "serve"
    /\ last.arg.kind = "GET /board"
    /\ tokenOf(last.arg) \in DOMAIN last.sessions

\* the response lists the item of a row, with its id, x, y and content
Listed(reply, row) ==
    \E i \in DOMAIN reply.items :
        /\ reply.items[i].id = row.id
        /\ reply.items[i].x = row.x
        /\ reply.items[i].y = row.y
        /\ reply.items[i].content = row.content

\* C26: an authenticated GET /board/:id succeeds; for a board that had no
\* row it creates the row and returns the origin (0, 0), the zoom 1 and no
\* items and no todos; it lists every item of the board in the store, and a
\* POST /items that succeeds stores the item for its board with the id, x, y
\* and content of its body, so that the next GET of the board lists it
C26_BoardCreatedAndItemListed ==
    /\ BoardRead =>
           /\ last.code = 200
           /\ last.arg.board \in DOMAIN boards
           /\ last.arg.board \notin DOMAIN last.boards =>
                  /\ last.reply.board.viewport.x = R(0)
                  /\ last.reply.board.viewport.y = R(0)
                  /\ last.reply.board.zoom = R(1)
                  /\ last.reply.items = <<>>
                  /\ last.reply.todos = <<>>
           /\ \A i \in DOMAIN last.rows :
                  last.rows[i].board_id = last.arg.board => Listed(last.reply, last.rows[i])
    /\ last.op = "serve" /\ last.arg.kind = "POST /items" /\ last.code = 200 =>
           /\ Has(srvItems, last.arg.body.id)
           /\ ~Has(last.rows, last.arg.body.id)
           /\ Of(srvItems, last.arg.body.id).board_id = last.arg.board
           /\ Of(srvItems, last.arg.body.id).x = last.arg.body.x
           /\ Of(srvItems, last.arg.body.id).y = last.arg.body.y
           /\ Of(srvItems, last.arg.body.id).content = last.arg.body.content

\* a GET of the board that the first GET created lists the item that a POST
\* stored for it in between
C26_Witness ==
    /\ BoardRead
    /\ last.arg.board = "other"
    /\ last.arg.board \in DOMAIN last.boards
    /\ \E i \in DOMAIN last.reply.items :
           /\ last.reply.items[i].id = 9
           /\ last.reply.items[i].content = <<"G", "o", "a", "l">>
           /\ last.reply.items[i].x = R(100)

\* the last request, let in, was an update or a delete of an item or of a
\* todo whose id has no row
UnknownIdWritten ==
    /\ last.op = "serve"
    /\ tokenOf(last.arg) \in DOMAIN last.sessions
    /\ \/ last.arg.kind \in {"PUT /items", "DELETE /items"} /\ ~Has(last.rows, last.arg.id)
       \/ last.arg.kind \in {"PUT /todos", "DELETE /todos"} /\ ~Has(last.todoRows, last.arg.id)

\* C27: an update or a delete of an item or a todo whose id is not in the
\* store succeeds, creates no row and leaves every board, item and todo as it
\* was
C27_UnknownIdIsNoOp ==
    UnknownIdWritten =>
        /\ last.code = 200
        /\ last.reply.success
        /\ srvItems = last.rows
        /\ srvTodos = last.todoRows
        /\ boards = last.boards

\* a PUT for an item id that has no row, in a store that holds items and a
\* todo, succeeded
C27_Witness ==
    /\ UnknownIdWritten
    /\ last.arg.kind = "PUT /items"
    /\ last.code = 200
    /\ srvItems # <<>>
    /\ srvTodos # <<>>

\* nothing holds the joystick: no finger is on the stick and the mouse button
\* is not down on it
StickFree ==
    /\ \A i \in DOMAIN fingers : fingers[i].target # "stick"
    /\ ~joystickState.mouseDown

\* C28: a callback of the keyboard loop that runs while the set of held
\* directions is empty requests no frame and leaves the origin; so does a
\* callback of the joystick loop that runs after the loop was stopped; and
\* once the joystick is released, the joystick loop is stopped
C28_LoopsSelfTerminate ==
    /\ last.op = "navframe" /\ last.keys = {} =>
           /\ navFrames = last.navFrames - 1
           /\ ~isNavigating
           /\ viewport_x = last.x /\ viewport_y = last.y
    /\ last.op = "joyframe" /\ ~last.joy =>
           /\ joyFrames = last.joyFrames - 1
           /\ viewport_x = last.x /\ viewport_y = last.y
    /\ StickFree => ~joystickNavigating

\* the directions of the navigation keys that are down
HeldDirections ==
    {normalizeNavKey(key) : key \in held \cap NavKeys}

\* C29: the set of held directions is exactly the set of directions of the
\* navigation keys that are down, also after one of two keys of the same
\* direction is released; while a navigation key is down the keyboard loop
\* runs with a callback pending, and a callback of the loop moves the origin
\* by the step of every direction whose key is down
C29_HeldDirectionsTrackKeys ==
    /\ keysPressed = HeldDirections
    /\ HeldDirections # {} => isNavigating /\ navFrames > 0
    /\ last.op = "navframe" /\ last.held \cap NavKeys # {} =>
           <<viewport_x, viewport_y>> =
               navigationStep(last.x, last.y, {normalizeNavKey(key) : key \in last.held \cap NavKeys},
                              last.shift, last.z)

\* the origin is within the bounds of clampViewport at the present zoom
OriginClamped ==
    /\ viewport_x = clampX(viewport_x, zoom)
    /\ viewport_y = clampY(viewport_y, zoom)

\* the stick is deflected far enough for a joystick frame to move the origin
Deflected(js) ==
    RLt(<<1, 10>>, RAbs(js.currentX)) \/ RLt(<<1, 10>>, RAbs(js.currentY))

\* C30: after a frame of the keyboard loop that applied a direction, and after
\* a frame of the joystick loop that applied a deflection, the origin is
\* within the bounds of clampViewport: between 0 and canvasSize less the
\* viewport extent over the zoom, and 0 when that is negative
C30_FramesClamp ==
    /\ last.op = "navframe" /\ last.nav /\ last.keys # {} => OriginClamped
    /\ last.op = "joyframe" /\ last.joy /\ Deflected(joystickState) => OriginClamped

\* a touchmove of a pinch: two fingers are down on the viewport and the pinch
\* has a start distance
PinchMoved ==
    /\ last.op = "touchmove"
    /\ Len(last.fingers) = 2
    /\ \A i \in DOMAIN last.fingers : last.fingers[i].target # "stick"
    /\ last.pinchStart # 0

\* no viewport write was scheduled or cancelled by the last event
NothingScheduled ==
    /\ timers = last.pending
    /\ nextTimer = last.issued

\* C31: a touchmove of a two-finger pinch sets the zoom to the zoom of the
\* pinch's start times the ratio of the finger distances, limited to the zoom
\* range, and leaves the pan state and the origin as they were; no event of a
\* touch schedules a viewport write while a finger is down, and the touchend
\* of the viewport that leaves no finger down schedules one
C31_PinchZoomsWithoutPersisting ==
    /\ PinchMoved =>
           /\ zoom = clampZoom(RMul(last.pinchZoomStart,
                                    Rat(getPinchDistance(fingers), last.pinchStart)))
           /\ isPanning = last.pan
           /\ viewport_x = last.x /\ viewport_y = last.y
    /\ last.op \in {"touchstart", "touchmove"} => NothingScheduled
    /\ last.op = "touchend" /\ fingers # <<>> => NothingScheduled
    /\ last.op = "touchend" /\ fingers = <<>> /\ last.fingers[1].target # "stick" =>
           SyncScheduled

\* a pinch has changed the zoom
C31_Witness ==
    /\ PinchMoved
    /\ zoom # last.z

\* the last event left the pan state and the position of the context menu of
\* the background as they were
ItemOwnsEvent ==
    /\ isPanning = last.pan
    /\ contextMenuPosition = last.menu

\* C32: a press on a rendered item starts no pan and does not take the path of
\* the background's context menu: the mousedown and the click on the item, the
\* contextmenu event of a press of the right button on it, and the touchstart
\* of a single finger on it
C32_ItemPressSuppressesBackground ==
    /\ last.op \in {"itemdown", "itemclick"} => ItemOwnsEvent
    /\ last.op = "rightclick" /\ last.arg = "item" => ItemOwnsEvent
    /\ (last.op = "touchstart" /\ Len(fingers) = 1 /\ fingers[1].target = "item") =>
           ItemOwnsEvent

\* the auth middleware accepted the last request: it was answered, and not
\* with 401
Accepted ==
    /\ last.op = "serve"
    /\ last.code # 401

\* C33: a request the auth middleware accepts sets the expiry of its token to
\* one session lifetime (24 h) after the request; and when time passes, a
\* token whose last accepted request or login is no more than one lifetime
\* ago (its expiry has not passed) survives the sweeps with its expiry, so
\* that it is accepted again
C33_UseRefreshesSession ==
    /\ Accepted =>
           /\ tokenOf(last.arg) \in DOMAIN sessions
           /\ sessions[tokenOf(last.arg)] = clock + sessionLifetime
    /\ last.op = "pass" =>
           \A t \in DOMAIN last.sessions :
               last.sessions[t] >= clock =>
                   /\ t \in DOMAIN sessions
                   /\ sessions[t] = last.sessions[t]

\* a token that was refreshed by a request is still in the session map one
\* whole lifetime after that request
C33_Witness ==
    /\ last.op = "pass"
    /\ \E t \in DOMAIN sessions :
           /\ sessions[t] = clock
           /\ sessions[t] > sessionLifetime

\* C34: the item that is being dragged and the item that is being resized are
\* in the item list, and the item whose update a release issues is in the
\* item list
C34_DragTargetListed ==
    /\ draggedItem # NoItem => Has(items, draggedItem)
    /\ resizingItem # NoItem => Has(items, resizingItem)
    /\ last.op \in {"mouseup", "mouseleave"} =>
           /\ last.drag # NoItem => Has(items, last.drag)
           /\ last.resize # NoItem => Has(items, last.resize)

\* C35: the selected item is none or an item of the item list
C35_SelectionListed ==
    selectedItem = NoItem \/ Has(items, selectedItem)

\* the selected item has been deleted
C35_Witness ==
    /\ last.op \in {"deleteclick", "keydown"}
    /\ last.sel # NoItem
    /\ ~Has(items, last.sel)

\* the page was opened and took the snapshot of the server, whose board row
\* holds a viewport a client stored, not the defaults of a new row
LoadedFromServer ==
    /\ last.op = "open"
    /\ last.arg
    /\ last.token \in DOMAIN last.sessions
    /\ last.boards[boardId] # newBoard

\* the page was opened and took the local cache
LoadedFromCache ==
    /\ last.op = "open"
    /\ ~(last.arg /\ last.token \in DOMAIN last.sessions)
    /\ last.cache # <<>>

\* C36: the viewport write the server accepts stores the origin and the zoom
\* the client sent, and the page that is opened again has exactly the origin
\* and the zoom of the board row, or of the local cache when the server is not
\* reached
C36_ViewportRoundTrips ==
    /\ (last.op = "deliver" /\ last.arg.kind = "PUT /viewport" /\ last.code = 200) =>
           /\ boards[boardId].viewport_x = last.arg.body.x
           /\ boards[boardId].viewport_y = last.arg.body.y
           /\ boards[boardId].zoom = last.arg.body.zoom
    /\ LoadedFromServer =>
           /\ viewport_x = last.boards[boardId].viewport_x
           /\ viewport_y = last.boards[boardId].viewport_y
           /\ zoom = last.boards[boardId].zoom
    /\ LoadedFromCache =>
           /\ viewport_x = last.cache[1].viewport_x
           /\ viewport_y = last.cache[1].viewport_y
           /\ zoom = last.cache[1].zoom

\* the last event added an item to the item list
ItemAdded ==
    Len(items) = Len(last.items) + 1

\* the item at (x, y)
At(item, x, y) ==
    item.x = x /\ item.y = y

\* C37: a text item is created at the position the text editor was opened
\* for, an image item at the point it was dropped at, or else at the position
\* of the context menu it was asked from; the midpoint of the canvas is used
\* only when there is no such position
C37_CreatedAtRequestedPosition ==
    /\ last.op = "savetext" /\ ItemAdded =>
           IF last.pendingText # NoPos
           THEN At(items[Len(items)], last.pendingText[1], last.pendingText[2])
           ELSE At(items[Len(items)], Rat(canvasSize, 2), Rat(canvasSize, 2))
    /\ last.op = "addimage" /\ ItemAdded =>
           IF last.ax # Undef
           THEN At(items[Len(items)], last.ax, last.ay)
           ELSE IF last.pendingImage # NoPos
           THEN At(items[Len(items)], last.pendingImage[1], last.pendingImage[2])
           ELSE At(items[Len(items)], Rat(canvasSize, 2), Rat(canvasSize, 2))

\* the last request was a full sync that the auth middleware let in
SyncServed ==
    /\ last.op = "serve"
    /\ last.arg.kind = "POST /sync"
    /\ last.code # 401

\* C38: a full sync either succeeds, and then the board holds exactly the
\* items and the todos sent, or it is answered with an error (500), and then
\* the board rows, the items and the todos of the store are what they were
\* before the request
C38_SyncAtomic ==
    SyncServed =>
        \/ /\ last.code = 200
           /\ OfBoard(srvItems, last.arg.board)
                  = syncItemRows(last.arg.body.items, last.arg.board)
           /\ OfBoard(srvTodos, last.arg.board)
                  = syncTodoRows(last.arg.body.todos, last.arg.board)
        \/ /\ last.code = 500
           /\ "error" \in DOMAIN last.reply
           /\ boards = last.boards
           /\ srvItems = last.rows
           /\ srvTodos = last.todoRows

\* a full sync failed on a board that held items, after statements of it had
\* run
C38_Witness ==
    /\ SyncServed
    /\ last.code = 500
    /\ OfBoard(last.rows, last.arg.board) # <<>>
    /\ srvItems = last.rows

\* the requests about item id that the server has not handled yet
OnTheWay(id) ==
    {m \in net : m.id = id}

\* the page deleted item id, and the server has handled every request about it
DeletedAndDelivered(id) ==
    /\ id < nextId
    /\ ~Has(items, id)
    /\ OnTheWay(id) = {}

\* C39: once the page has deleted an item and every request about it, the
\* POST, any PUT and the DELETE, has been delivered, in whatever order, the
\* store does not hold the item
C39_DeletedStaysDeleted ==
    \A id \in 1..(nextId - 1) :
        DeletedAndDelivered(id) => ~Has(srvItems, id)

====
